---- MODULE Spec2Model ----
(***************************************************************************)
(* A model of the MCP tool-integration layer of arkos:                     *)
(*   - MCPClient (tool_module/tool_call.py): one protocol session over one *)
(*     transport, driven by concurrent callers          (SpecClient);      *)
(*   - MCPToolManager (tool_module/tool_call.py): shared sessions, the     *)
(*     tool registry, lazily created per-user sessions  (SpecMgr);         *)
(*   - StdioTransport / HTTPTransport (tool_module/transports): request    *)
(*     ids and the matching of responses                (SpecTransport).   *)
(* Coroutines are interleaved at their await points only: every action is  *)
(* the code that runs between two suspensions of one coroutine.            *)
(***************************************************************************)
EXTENDS Naturals, Integers, Sequences, FiniteSets, TLC

\* ------------------------------------------------------------------ bounds
\* Cap of StdioTransport.request_id in the guards that allocate an id.
MaxRequestId == 3
\* Longest tools/list answer.
MaxTools == 2
\* Notifications the subprocess of a StdioTransport writes on its own.
MaxNotifications == 1
\* Distinct verifiers one OAuthManager generates.
MaxSeed == 2
\* Access tokens the token endpoint issues.
MaxIssued == 2

\* Concurrent callers of one MCPClient.
Callers == {"c1", "c2"}

VARIABLES
    \* ---- SpecClient: one MCPClient and its transport
    client,     \* [initialized, process, request_id]
    cop,        \* per caller: the MCPClient method it runs or ran last
    cpc,        \* per caller: where that coroutine is suspended
    cres,       \* per caller: outcome of the method it ran last
    \* ---- SpecMgr: one MCPToolManager
    config,            \* self.config: the configured server names, in order
    initIdx,           \* initialize_servers: index of the next config entry
    mgrPhase,          \* "init" | "ready" | "failed" (initialize_servers raised)
    reported,          \* per shared server: names in its tools/list answer
    sessions,          \* every MCPClient the manager created, by creation order
    clients,           \* self.clients: server name -> session
    user_clients,      \* self.user_clients: user -> server name -> session
    tool_registry,     \* self._tool_registry: tool name -> server name
    per_user_configs,  \* self._per_user_configs (its keys)
    tokens,            \* UserTokenStore rows: <<user, service>>
    token_files,       \* files under _user_token_dir: path -> owner of the content
    task,              \* per call_tool invocation: [pc, tool, user, sid, mode, res]
    lister,            \* the list_all_tools invocation: [pc, sid]
    down               \* the shutdown invocation: [pc, todo, stops, failed]

VARIABLES
    \* ---- SpecTransport: one transport instance and the server behind it
    tkind,       \* "stdio" | "http": the class _create_transport built
    toauth,      \* HTTPTransport.oauth_manager is set
    tproc,       \* StdioTransport.process / HTTPTransport.session is set
    teof,        \* the subprocess of a StdioTransport has exited
    request_id,  \* StdioTransport.request_id
    tsent,       \* ids of the requests sent so far, in sending order
    tanswered,   \* ids the server has written a response for
    tnotes,      \* notifications the server has written
    tout,        \* lines waiting in the subprocess's stdout pipe
    treader,     \* StreamReader._waiter: the caller suspended in readline
    tcall        \* per caller of send_request: [pc, req, got, res]

VARIABLES
    \* ---- SpecOAuth: one OAuthManager and its token cache file
    cache,       \* content of token_cache_file: NoToken or the saved tokens
    oauth,       \* the get_token invocation: [pc, route, res]
    flow         \* the authenticate flow: PKCE values, listener, future

VARIABLES
    \* ---- SpecLoader: one ConfigLoader, its file and the environment
    cfgfile,     \* the YAML document at config_path
    environ,     \* os.environ: variable name -> value
    loaded,      \* self._config
    lres         \* the last load / get / reload: [op, path, default, ok, out]

VARIABLES
    \* ---- SpecRpc: one list_tools / call_tool and the response it gets
    rpc          \* [pc, op, name, resp, out]

VARIABLES
    \* ---- SpecClose: one StdioTransport, its subprocess and its closers
    stdio,       \* [process, exited, heeds, term, kill]
    scall        \* per caller of close / send_request: [pc, op, res]

VARIABLES
    \* ---- SpecEnv: the environment a StdioTransport spawns its server with
    osenv,       \* os.environ: variable name -> value
    spawn        \* the transport being built: [pc, user, cfg, os0, env, full]

VARIABLES
    \* ---- SpecAuth: the /auth/google routes of base_module/auth.py
    oauth_states,  \* _oauth_states: state -> user_id
    authlog        \* [issued, accepted, last]: the states issued so far with
                   \* their users, the tokens stored, the last response

VARIABLES
    \* ---- SpecAgent: one Agent and its step() calls
    agent          \* [pc, current_state, retry_count, runs, last_ai_message,
                   \*  exit]

clientVars == <<client, cop, cpc, cres>>
mgrVars == <<config, initIdx, mgrPhase, reported, sessions, clients, user_clients,
             tool_registry, per_user_configs, tokens, token_files, task>>
transportVars == <<tkind, toauth, tproc, teof, request_id, tsent, tanswered,
                   tnotes, tout, treader, tcall>>
lifeVars == <<lister, down>>
oauthVars == <<cache, oauth, flow>>
loaderVars == <<cfgfile, environ, loaded, lres>>
closeVars == <<stdio, scall>>
envVars == <<osenv, spawn>>
authVars == <<oauth_states, authlog>>
otherVars == <<rpc, closeVars, envVars, authVars, agent>>
vars == <<clientVars, mgrVars, lifeVars, transportVars, oauthVars, loaderVars,
          otherVars>>
\* What the actions of one component leave alone.
exceptClient == <<mgrVars, lifeVars, transportVars, oauthVars, loaderVars, otherVars>>
exceptMgr == <<clientVars, lifeVars, transportVars, oauthVars, loaderVars, otherVars>>
exceptTransport == <<clientVars, mgrVars, lifeVars, oauthVars, loaderVars, otherVars>>
exceptLife == <<clientVars, transportVars, oauthVars, loaderVars, otherVars>>
exceptOAuth == <<clientVars, mgrVars, lifeVars, transportVars, loaderVars, otherVars>>
exceptLoader == <<clientVars, mgrVars, lifeVars, transportVars, oauthVars, otherVars>>

\* ------------------------------------------------------- transport (shared)
\* What the subprocess does with a request: it "answers" with a valid
\* JSON-RPC line, stays "silent", writes a "malformed" line, or "closes" its
\* stdout.
ServerModes == {"answers", "silent", "malformed", "closes"}

\* MCPClient.__init__ with a fresh transport: no process, request_id = 0,
\* _initialized = False.  exited: the subprocess has terminated and asyncio
\* has reaped it; notified: notifications/initialized sent so far; kind: the
\* transport class, StdioTransport ("stdio") or HTTPTransport ("http"), for
\* which process stands for self.session and exited for a server that is
\* gone.
NewClient == [initialized |-> FALSE, process |-> FALSE, request_id |-> 0,
              exited |-> FALSE, mode |-> "answers", notified |-> 0,
              kind |-> "stdio"]

\* The transports _create_transport builds.
ClientKinds == {"stdio", "http"}

\* StdioTransport.connect succeeding: self.process = <subprocess>.
TransportConnect(s) == [s EXCEPT !.process = TRUE]

\* The subprocess connect spawned: alive, behaving as `mode`.
Spawned(s, mode) == [TransportConnect(s) EXCEPT !.exited = FALSE, !.mode = mode]

\* StdioTransport.send_request up to its readline: only with a process,
\* request_id += 1, the request line is written.
CanSendRequest(s) == s.process /\ s.request_id < MaxRequestId
TransportSendRequest(s) == [s EXCEPT !.request_id = @ + 1]

\* StdioTransport.close: process.terminate() raises ProcessLookupError when
\* the subprocess has already exited; only asyncio.TimeoutError is caught.
\* HTTPTransport.close only closes the aiohttp session.
CloseRaises(s) == s.kind = "stdio" /\ s.process /\ s.exited

\* StdioTransport.close's finally: self.process = None.
TransportClose(s) == [s EXCEPT !.process = FALSE]

\* MCPClient.stop's finally: _initialized = False.
ClientStopped(s) == [TransportClose(s) EXCEPT !.initialized = FALSE]

\* The same for the client of SpecClient: with process None nothing is
\* known of a subprocess any more.
Reaped(s) == [ClientStopped(s) EXCEPT !.exited = FALSE, !.mode = "answers"]

\* No token cache file (_load_cached_token returns None).
NoToken == [access |-> 0, refresh |-> FALSE, expired |-> FALSE]

\* get_token not called yet.
IdleOAuth == [pc |-> "idle", route |-> "none", res |-> "none"]

\* No authenticate flow yet: nothing generated, no listener socket.
NoFlow == [verifier |-> <<>>, challenge |-> <<>>, state |-> "", socket |-> "none",
           handled |-> 0, future |-> "pending", returned |-> "",
           code_verifier |-> <<>>]

OAuthAtRest == cache = NoToken /\ oauth = IdleOAuth /\ flow = NoFlow

\* Config values carry their Python type: "null" (None), "int", "str" (a
\* sequence of characters), "list", "dict" (key -> value).
Null == [t |-> "null", v |-> 0]
Num(n) == [t |-> "int", v |-> n]
Str(chars) == [t |-> "str", v |-> chars]
List(items) == [t |-> "list", v |-> items]
Dict(f) == [t |-> "dict", v |-> f]

\* No load, get or reload yet.
IdleLoader == [op |-> "none", path |-> <<>>, default |-> Null, ok |-> TRUE,
               out |-> Null]

\* ConfigLoader.__init__: self._config = None.
LoaderAtRest ==
    cfgfile = Null /\ environ = <<>> /\ loaded = Null /\ lres = IdleLoader

\* No request made yet.
IdleRpc == [pc |-> "idle", op |-> "", name |-> "", resp |-> [k \in {} |-> 0],
            out |-> [ok |-> TRUE, kind |-> "", text |-> <<>>, detail |-> Null,
                     value |-> Null]]

\* StdioTransport.__init__: self.process = None.  exited: the subprocess
\* has terminated and the event loop has set its returncode; heeds: it exits
\* on SIGTERM; term / kill: the signals close() has sent it (at most one of
\* each per caller).
NewStdio == [process |-> FALSE, exited |-> FALSE, heeds |-> TRUE,
             term |-> 0, kill |-> 0]

\* A caller outside close and send_request.
IdleCloser == [pc |-> "idle", op |-> "", res |-> "none"]

CloseAtRest == stdio = NewStdio /\ scall = [c \in Callers |-> IdleCloser]

RpcAtRest == rpc = IdleRpc

\* An empty dict, and os.environ with nothing in it that matters here.
NoEnv == [k \in {} |-> ""]

\* No transport built yet.  cfg.set tells a config with an "env" entry from
\* one without (server_config.get("env") is None).
IdleSpawn == [pc |-> "idle", user |-> "", cfg |-> [set |-> FALSE, env |-> NoEnv],
              os0 |-> NoEnv, env |-> NoEnv, full |-> NoEnv]

EnvAtRest == osenv = NoEnv /\ spawn = IdleSpawn

\* _oauth_states: dict = {} at import; nothing issued, nothing stored.
NoStates == [s \in {} |-> ""]
NoResponse == [route |-> "", state |-> 0, status |-> ""]
AuthAtRest ==
    /\ oauth_states = NoStates
    /\ authlog = [issued |-> {}, accepted |-> <<>>, last |-> NoResponse]

\* Agent.__init__ on a flow whose initial state is `initial`; runs counts
\* the state runs of the current step() call, last_ai_message is whether
\* step holds one, exit says how the call ended.
NewAgent(initial) ==
    [pc |-> "idle", current_state |-> initial, retry_count |-> 0, runs |-> 0,
     last_ai_message |-> FALSE, exit |-> ""]

AgentAtRest == agent = NewAgent("agent_reply")

OthersAtRest ==
    RpcAtRest /\ CloseAtRest /\ EnvAtRest /\ AuthAtRest /\ AgentAtRest

\* ------------------------------------------------------------ SpecClient
ClientAtRest ==
    /\ client = NewClient
    /\ cop = [c \in Callers |-> "none"]
    /\ cpc = [c \in Callers |-> "idle"]
    /\ cres = [c \in Callers |-> "none"]

\* What the readline of send_request can turn out to be for the caller: a
\* response with a result ("ok") or with an error field ("error"), a line
\* json.loads rejects ("malformed"), or end of file ("closed").
Outcomes == {"ok", "error", "malformed", "closed"}

\* The lines the readline of a pending request can return: what the server
\* writes in its mode, and end of file once the subprocess is gone.
Replies(s) ==
    (CASE s.mode = "answers" -> {"ok", "error"}
       [] s.mode = "malformed" -> {"malformed"}
       [] s.mode = "closes" -> {"closed"}
       [] s.mode = "silent" /\ s.kind = "http" -> {"closed"}
       [] OTHER -> {})
    \cup (IF s.exited \/ ~s.process THEN {"closed"} ELSE {})

Finish(c, r) ==
    /\ cpc' = [cpc EXCEPT ![c] = "idle"]
    /\ cres' = [cres EXCEPT ![c] = r]

\* An except branch that re-raises without stopping the session.
StartFailNoStop(c) ==
    /\ Finish(c, "error")
    /\ UNCHANGED client

\* MCPClient.start's except branch: `await self.stop()`, then re-raise.
\* With a live subprocess close() suspends in process.wait(); otherwise it
\* returns or raises at once and start raises in this step.
StartFail(c) ==
    IF client.process /\ ~client.exited
    THEN /\ cpc' = [cpc EXCEPT ![c] = "start_closing"]
         /\ UNCHANGED <<client, cres>>
    ELSE /\ client' = Reaped(client)
         /\ Finish(c, "error")

\* MCPClient.start, up to `await self.transport.connect()`.
StartBegin(c) ==
    /\ cpc[c] = "idle"
    /\ UNCHANGED exceptClient
    /\ cop' = [cop EXCEPT ![c] = "start"]
    /\ cpc' = [cpc EXCEPT ![c] = "connecting"]
    /\ cres' = [cres EXCEPT ![c] = "none"]
    /\ UNCHANGED client

\* connect returns: on success the initialize request is sent and the
\* coroutine waits for its response; on failure the except branch stops the
\* session and re-raises.
StartConnected(c) ==
    /\ cpc[c] = "connecting"
    /\ UNCHANGED exceptClient
    /\ \/ \E mode \in ServerModes :
          /\ CanSendRequest(Spawned(client, mode))
          /\ client' = TransportSendRequest(Spawned(client, mode))
          /\ cpc' = [cpc EXCEPT ![c] = "await_init"]
          /\ UNCHANGED cres
       \/ StartFail(c)
    /\ UNCHANGED cop

\* What send_notification can do with the notification when it returns:
\* StdioTransport writes it or raises; HTTPTransport posts it, or catches
\* the aiohttp.ClientError of the post, logs a warning and returns.
NotificationsSent(s) == IF s.kind = "http" THEN {0, 1} ELSE {1}

\* The initialize response arrives. Without an error field the notification
\* is sent (it needs the process) and _initialized = True; otherwise stop().
StartInitResponse(c) ==
    /\ cpc[c] = "await_init"
    /\ UNCHANGED exceptClient
    /\ \E o \in Replies(client) :
         IF o = "ok" /\ client.process
         THEN /\ \E sent \in NotificationsSent(client) :
                    client' = [client EXCEPT !.initialized = TRUE,
                                             !.notified = @ + sent]
              /\ Finish(c, "ok")
         ELSE StartFail(c)
    /\ UNCHANGED cop

\* The close() inside the failed start's stop() returns: stop's finally
\* clears the flag and start re-raises.
StartStopped(c) ==
    /\ cpc[c] = "start_closing"
    /\ UNCHANGED exceptClient
    /\ client' = Reaped(client)
    /\ Finish(c, "error")
    /\ UNCHANGED cop

\* MCPClient.stop, up to the wait for the subprocess inside close(); with no
\* process close() returns at once and stop() completes in this step; with
\* an exited subprocess terminate() raises and stop() raises after its
\* finally blocks.
StopBegin(c) ==
    /\ cpc[c] = "idle"
    /\ UNCHANGED exceptClient
    /\ cop' = [cop EXCEPT ![c] = "stop"]
    /\ IF client.process /\ ~CloseRaises(client)
       THEN /\ cpc' = [cpc EXCEPT ![c] = "closing"]
            /\ cres' = [cres EXCEPT ![c] = "none"]
            /\ UNCHANGED client
       ELSE /\ Finish(c, IF CloseRaises(client) THEN "error" ELSE "ok")
            /\ client' = Reaped(client)

StopDone(c) ==
    /\ cpc[c] = "closing"
    /\ UNCHANGED exceptClient
    /\ client' = Reaped(client)
    /\ Finish(c, "ok")
    /\ UNCHANGED cop

\* The subprocess terminates on its own (or after a terminate()) and the
\* event loop reaps it.
ServerExit ==
    /\ client.process /\ ~client.exited
    /\ client' = [client EXCEPT !.exited = TRUE]
    /\ UNCHANGED <<cop, cpc, cres>>
    /\ UNCHANGED exceptClient

\* A guard that looks at the transport instead of the handshake flag.
ClientReadyConnected(s) == s.process

\* The guard of MCPClient.list_tools and MCPClient.call_tool:
\* `if not self._initialized: raise RuntimeError("... not initialized")`.
ClientReady(s) == s.initialized

\* MCPClient.list_tools / MCPClient.call_tool up to the readline of
\* send_request: `if not self._initialized: raise`, else the request is sent.
ClientRequest(c, op) ==
    /\ cpc[c] = "idle"
    /\ UNCHANGED exceptClient
    /\ cop' = [cop EXCEPT ![c] = op]
    /\ IF ~ClientReady(client)
       THEN /\ Finish(c, "not_initialized")
            /\ UNCHANGED client
       ELSE IF client.process
            THEN /\ CanSendRequest(client)
                 /\ client' = TransportSendRequest(client)
                 /\ cpc' = [cpc EXCEPT ![c] = "await_resp"]
                 /\ cres' = [cres EXCEPT ![c] = "none"]
            ELSE /\ Finish(c, "error")
                 /\ UNCHANGED client

ClientListTools(c) == ClientRequest(c, "list_tools")
ClientCallTool(c) == ClientRequest(c, "call_tool")

\* The response to tools/list or tools/call: a result, an error field, or
\* the stream closed.
ClientResponse(c) ==
    /\ cpc[c] = "await_resp"
    /\ UNCHANGED exceptClient
    /\ \E o \in Replies(client) : Finish(c, IF o = "ok" THEN "ok" ELSE "error")
    /\ UNCHANGED <<client, cop>>

NextClient ==
    \/ \E c \in Callers :
        \/ StartBegin(c)
        \/ StartConnected(c)
        \/ StartInitResponse(c)
        \/ StartStopped(c)
        \/ StopBegin(c)
        \/ StopDone(c)
        \/ ClientListTools(c)
        \/ ClientCallTool(c)
        \/ ClientResponse(c)
    \/ ServerExit


\* ------------------------------------------------------------- the manager
\* tool_call.py: PER_USER_SERVICES (its keys).
PER_USER_SERVICES == {"google-calendar"}

\* The shared (agent-level) servers of the configuration, in its order.
SharedOrder == <<"srv1", "srv2">>

Users == {"u1", "u2"}
\* user_id = None (or ""): `if not user_id` holds for both.
NoUser == ""

\* Tool names servers report; the per-user service reports PerUserTools only.
ToolNames == {"search", "list-events"}
PerUserTools == {"list-events"}
\* An entry of a tools/list answer that has no "name" key.
NoName == "<no name>"
Entries == ToolNames \cup {NoName}

\* The call_tool invocations of one run, each a coroutine of its own.
Tasks == {"k1", "k2"}

Range(seq) == {seq[i] : i \in DOMAIN seq}

\* The tools/list answers a server can give.
Catalogs == UNION {[1 .. n -> Entries] : n \in 0 .. MaxTools}
PerUserCatalogs == {cat \in Catalogs : Range(cat) \subseteq PerUserTools \cup {NoName}}

\* MCPClient.__init__ for a server of the manager; token_path is the
\* GOOGLE_CALENDAR_MCP_TOKEN_PATH of the environment its transport is built
\* with ("" for a shared server).
NewSession(server, user, path) ==
    [initialized |-> FALSE, process |-> FALSE,
     server |-> server, user |-> user, token_path |-> path]

\* MCPClient.start having succeeded: connected, handshake done.
ClientStarted(s) == [TransportConnect(s) EXCEPT !.initialized = TRUE]

\* _get_user_client: token_file = _user_token_dir / f"{user_id}_{server_name}.json"
TokenFileName(u, svc) == u \o "_" \o svc \o ".json"

\* UserTokenStore.has_token, as used with `not self.token_store or not ...`.
HasToken(u, svc) == <<u, svc>> \in tokens

\* The registration loop overwriting only names that are not registered yet.
RegisterToolsFirstWins(reg, cat, server) ==
    LET stop == IF NoName \in Range(cat)
                THEN CHOOSE i \in DOMAIN cat :
                        cat[i] = NoName /\ \A j \in 1 .. i - 1 : cat[j] # NoName
                ELSE Len(cat) + 1
        names == {cat[i] : i \in 1 .. stop - 1}
    IN  [t \in DOMAIN reg \cup names |-> IF t \in DOMAIN reg THEN reg[t] ELSE server]

\* The registration loop `for tool in tools: self._tool_registry[tool["name"]]
\* = server_name`: every entry before the first one without a name is written,
\* over whatever owner the name had.
RegisterTools(reg, cat, server) ==
    LET stop == IF NoName \in Range(cat)
                THEN CHOOSE i \in DOMAIN cat :
                        cat[i] = NoName /\ \A j \in 1 .. i - 1 : cat[j] # NoName
                ELSE Len(cat) + 1
        names == {cat[i] : i \in 1 .. stop - 1}
    IN  [t \in DOMAIN reg \cup names |-> IF t \in names THEN server ELSE reg[t]]

\* tool["name"] raises KeyError on an entry without a name.
RegistrationRaises(cat) == NoName \in Range(cat)

\* list_all_tools and shutdown not running.
\* include is its include_per_user argument, todo the shared clients its
\* loop has still to list, answers what each one answered, found the
\* server_tools of the discovery, all its all_tools dict.
IdleLister == [pc |-> "idle", sid |-> 0, include |-> TRUE, todo |-> <<>>,
               answers |-> <<>>, found |-> <<>>, all |-> <<>>]
IdleDown == [pc |-> "idle", todo |-> {}, stops |-> {}, failed |-> {}]

MgrAtRest ==
    /\ lister = IdleLister
    /\ down = IdleDown
    /\ config = <<>>
    /\ initIdx = 1
    /\ mgrPhase = "init"
    /\ reported = <<>>
    /\ sessions = <<>>
    /\ clients = <<>>
    /\ user_clients = <<>>
    /\ tool_registry = <<>>
    /\ per_user_configs = {}
    /\ tokens = {}
    /\ token_files = <<>>
    /\ task = <<>>

IdleTask == [pc |-> "idle", tool |-> "", user |-> NoUser, sid |-> 0,
             mode |-> "", res |-> "none",
             err |-> [service |-> "", connect_url |-> "", text |-> ""]]

\* MCPToolManager.__init__ over a configuration of NumShared shared servers
\* with or without the per-user service.
InitMgr ==
    /\ lister = IdleLister
    /\ down = IdleDown
    /\ config \in {SharedOrder, SharedOrder \o <<"google-calendar">>}
    /\ initIdx = 1
    /\ mgrPhase = "init"
    /\ reported = [s \in Range(SharedOrder) |-> {}]
    /\ sessions = <<>>
    /\ clients = <<>>
    /\ user_clients = <<>>
    /\ tool_registry = <<>>
    /\ per_user_configs = {}
    /\ tokens = {}
    /\ token_files = <<>>
    /\ task = [k \in Tasks |-> IdleTask]

\* How starting and listing one server can end.
StartOutcomes == {"connect_failed", "init_error", "list_error", "listed"}

\* A test that takes no configured server for a per-user service.
IsPerUserServiceNever(name) == FALSE

\* initialize_servers: `if server_name in PER_USER_SERVICES:` (record the
\* config in _per_user_configs and `continue`).
IsPerUserService(name) == name \in PER_USER_SERVICES

\* initialize_servers: one iteration of its loop over self.config.
InitializeServer ==
    /\ mgrPhase = "init"
    /\ initIdx <= Len(config)
    /\ UNCHANGED exceptMgr
    /\ initIdx' = initIdx + 1
    /\ UNCHANGED <<config, mgrPhase, user_clients, tokens, token_files, task>>
    /\ LET name == config[initIdx] IN
       IF IsPerUserService(name)
       THEN /\ per_user_configs' = per_user_configs \cup {name}
            /\ UNCHANGED <<reported, sessions, clients, tool_registry>>
       ELSE /\ UNCHANGED per_user_configs
            /\ \E o \in StartOutcomes, cat \in Catalogs :
                 LET new == NewSession(name, NoUser, "") IN
                 CASE o \in {"connect_failed", "init_error"} ->
                        \* client.start() raised after its own stop()
                        /\ sessions' = Append(sessions, ClientStopped(new))
                        /\ UNCHANGED <<reported, clients, tool_registry>>
                   [] o = "list_error" ->
                        /\ sessions' = Append(sessions, ClientStarted(new))
                        /\ UNCHANGED <<reported, clients, tool_registry>>
                   [] o = "listed" ->
                        /\ sessions' = Append(sessions, ClientStarted(new))
                        /\ reported' = [reported EXCEPT
                                           ![name] = Range(cat) \ {NoName}]
                        /\ tool_registry' = RegisterTools(tool_registry, cat, name)
                        /\ IF RegistrationRaises(cat)
                           THEN UNCHANGED clients
                           ELSE clients' = [n \in DOMAIN clients \cup {name} |->
                                              IF n = name THEN Len(sessions) + 1
                                              ELSE clients[n]]

\* A final check that looks at the shared sessions only.
InitializeFinishSharedOnly ==
    /\ mgrPhase = "init"
    /\ initIdx > Len(config)
    /\ UNCHANGED exceptMgr
    /\ mgrPhase' = IF DOMAIN clients = {} THEN "failed" ELSE "ready"
    /\ UNCHANGED <<config, initIdx, reported, sessions, clients, user_clients,
                   tool_registry, per_user_configs, tokens, token_files, task>>

\* initialize_servers after its loop: raise if nothing is usable.
InitializeFinish ==
    /\ mgrPhase = "init"
    /\ initIdx > Len(config)
    /\ UNCHANGED exceptMgr
    /\ mgrPhase' = IF DOMAIN clients = {} /\ per_user_configs = {}
                   THEN "failed" ELSE "ready"
    /\ UNCHANGED <<config, initIdx, reported, sessions, clients, user_clients,
                   tool_registry, per_user_configs, tokens, token_files, task>>

\* /auth/google/callback storing a token; /auth/google/disconnect deleting it.
SetToken(u) ==
    /\ mgrPhase = "ready"
    /\ <<u, "google-calendar">> \notin tokens
    /\ tokens' = tokens \cup {<<u, "google-calendar">>}
    /\ UNCHANGED exceptMgr
    /\ UNCHANGED <<config, initIdx, mgrPhase, reported, sessions, clients,
                   user_clients, tool_registry, per_user_configs, token_files, task>>

DeleteToken(u) ==
    /\ mgrPhase = "ready"
    /\ <<u, "google-calendar">> \in tokens
    /\ tokens' = tokens \ {<<u, "google-calendar">>}
    /\ UNCHANGED exceptMgr
    /\ UNCHANGED <<config, initIdx, mgrPhase, reported, sessions, clients,
                   user_clients, tool_registry, per_user_configs, token_files, task>>

\* A cache lookup that does not look at the user id.
CachedUserClientAnyUser(uc, u, svc) ==
    IF \E v \in DOMAIN uc : svc \in DOMAIN uc[v]
    THEN uc[CHOOSE v \in DOMAIN uc : svc \in DOMAIN uc[v]][svc]
    ELSE 0

\* _get_user_client: `if user_id in self.user_clients and server_name in
\* self.user_clients[user_id]: return ...` (0 when there is none).
CachedUserClient(uc, u, svc) ==
    IF u \in DOMAIN uc /\ svc \in DOMAIN uc[u] THEN uc[u][svc] ELSE 0

\* A caching that files the client under every user id.
CacheUserClientForAll(uc, u, svc, sid) ==
    [v \in DOMAIN uc \cup Users |->
        [n \in (IF v \in DOMAIN uc THEN DOMAIN uc[v] ELSE {}) \cup {svc} |->
            IF n = svc THEN sid ELSE uc[v][n]]]

\* self.user_clients[user_id][server_name] = client
CacheUserClient(uc, u, svc, sid) ==
    [v \in DOMAIN uc \cup {u} |->
        IF v = u
        THEN [n \in (IF u \in DOMAIN uc THEN DOMAIN uc[u] ELSE {}) \cup {svc} |->
                 IF n = svc THEN sid ELSE uc[u][n]]
        ELSE uc[v]]

\* UserTokenStore.write_token_file(user_id, service, path): the file at path
\* now holds the token row of (user_id, service).
WriteTokenFile(files, u, svc, path) ==
    [q \in DOMAIN files \cup {path} |-> IF q = path THEN <<u, svc>> ELSE files[q]]

\* What an exception of call_tool carries besides its kind.
NoError == [service |-> "", connect_url |-> "", text |-> ""]

\* A RuntimeError of call_tool (not initialized, not connected, ...).
Fail(r) == [kind |-> "fail", res |-> r, sid |-> 0, err |-> NoError]

\* PER_USER_SERVICES.get(service, {}).get('auth_path', '/auth/connect')
AuthPath(svc) ==
    IF svc = "google-calendar" THEN "/auth/google/login" ELSE "/auth/connect"

\* A connect_url built on the default path whatever the service.
ConnectUrlDefaultPath(svc, uid) == "/auth/connect" \o "?user_id=" \o uid

\* AuthRequiredError.connect_url: f"{auth_path}?user_id={user_id}"
ConnectUrl(svc, uid) == AuthPath(svc) \o "?user_id=" \o uid

\* raise AuthRequiredError(service=svc, user_id=...): call_tool passes
\* "unknown" where it has no user id (`user_id or "unknown"`).
AuthRequired(svc, user) ==
    [kind |-> "fail", res |-> "auth_required", sid |-> 0,
     err |-> [service |-> svc,
              connect_url |-> ConnectUrl(svc, IF user = NoUser THEN "unknown"
                                              ELSE user),
              text |-> ""]]

\* An unknown-tool error that does not say which tool.
UnknownToolUnnamed(tool) ==
    [kind |-> "fail", res |-> "unknown_tool", sid |-> 0,
     err |-> [service |-> "", connect_url |-> "", text |-> "Unknown tool"]]

\* raise ValueError(f"Unknown tool: {tool_name}")
UnknownTool(tool) ==
    [kind |-> "fail", res |-> "unknown_tool", sid |-> 0,
     err |-> [service |-> "", connect_url |-> "",
              text |-> "Unknown tool: " \o tool]]

\* MCPClient.call_tool on session sid, up to the readline of send_request.
ClientCall(sess, sid) ==
    IF ~ClientReady(sess[sid]) THEN Fail("not_initialized")
    ELSE IF ~sess[sid].process THEN Fail("error")
    ELSE [kind |-> "send", res |-> "none", sid |-> sid]

\* MCPToolManager.call_tool once server_name is known: the per-user branch
\* with _get_user_client up to its first await, or the shared client.
Dispatch(server, user, uc, cl, sess) ==
    IF server \in PER_USER_SERVICES
    THEN IF user = NoUser THEN AuthRequired(server, user)
         ELSE IF CachedUserClient(uc, user, server) # 0
              THEN ClientCall(sess, CachedUserClient(uc, user, server))
              ELSE IF ~HasToken(user, server) THEN AuthRequired(server, user)
                   ELSE [kind |-> "create", res |-> "none", sid |-> 0]
    ELSE IF server \notin DOMAIN cl THEN Fail("not_connected")
         ELSE ClientCall(sess, cl[server])

\* The task goes on as the decision d says (never "create").
Proceed(k, t, d) ==
    task' = [task EXCEPT ![k] =
                IF d.kind = "send"
                THEN [t EXCEPT !.pc = "await_call", !.sid = d.sid]
                ELSE [t EXCEPT !.pc = "done", !.res = d.res, !.sid = 0,
                               !.mode = "", !.err = d.err]]

\* _get_user_client returned None to call_tool: AuthRequiredError on the
\* routed path, "Unknown tool" after the probe loop.
GiveUp(t, svc, mode) ==
    IF mode = "route" THEN AuthRequired(svc, t.user) ELSE UnknownTool(t.tool)

\* _get_user_client past its two checks, up to `await client.start()`: the
\* token file is written, the transport and the client are built.
BeginCreate(k, t, svc, mode) ==
    /\ token_files' = WriteTokenFile(token_files, t.user, svc,
                                     TokenFileName(t.user, svc))
    /\ IF svc \in Range(config)
       THEN /\ sessions' = Append(sessions,
                    NewSession(svc, t.user, TokenFileName(t.user, svc)))
            /\ task' = [task EXCEPT ![k] =
                    [t EXCEPT !.pc = "connecting", !.sid = Len(sessions) + 1,
                              !.mode = mode]]
       ELSE /\ UNCHANGED sessions
            /\ Proceed(k, t, GiveUp(t, svc, mode))

\* MCPToolManager.call_tool(tool, arguments, user), up to its first await.
\* Nothing in it looks at whether shutdown has run: it is callable once
\* initialize_servers has returned and again after shutdown has returned.
CallTool(k, tool, user) ==
    /\ mgrPhase \in {"ready", "down"}
    /\ task[k].pc = "idle"
    /\ UNCHANGED exceptMgr
    /\ UNCHANGED <<config, initIdx, mgrPhase, reported, clients, user_clients,
                   tool_registry, per_user_configs, tokens>>
    /\ LET t == [task[k] EXCEPT !.tool = tool, !.user = user] IN
       IF tool \notin DOMAIN tool_registry
       THEN IF per_user_configs = {}
            THEN /\ Proceed(k, t, UnknownTool(tool))
                 /\ UNCHANGED <<sessions, token_files>>
            ELSE LET svc == CHOOSE n \in per_user_configs : TRUE IN
                 IF ~HasToken(user, svc)
                 THEN /\ Proceed(k, t, AuthRequired(svc, user))
                      /\ UNCHANGED <<sessions, token_files>>
                 ELSE IF CachedUserClient(user_clients, user, svc) # 0
                      THEN /\ Proceed(k, t, UnknownTool(tool))
                           /\ UNCHANGED <<sessions, token_files>>
                      ELSE BeginCreate(k, t, svc, "probe")
       ELSE LET d == Dispatch(tool_registry[tool], user, user_clients,
                              clients, sessions) IN
            IF d.kind = "create"
            THEN BeginCreate(k, t, tool_registry[tool], "route")
            ELSE /\ Proceed(k, t, d)
                 /\ UNCHANGED <<sessions, token_files>>

\* _get_user_client returned None: call_tool raises AuthRequiredError on the
\* routed path, and "Unknown tool" after the probe loop.
NoClient(k) ==
    Proceed(k, task[k],
            GiveUp(task[k], sessions[task[k].sid].server, task[k].mode))

\* client.start() of a per-user client: connect returned or raised.
UserConnected(k) ==
    /\ task[k].pc = "connecting"
    /\ UNCHANGED exceptMgr
    /\ UNCHANGED <<config, initIdx, mgrPhase, reported, clients, user_clients,
                   tool_registry, per_user_configs, tokens, token_files>>
    /\ \/ /\ sessions' = [sessions EXCEPT ![task[k].sid] = TransportConnect(@)]
          /\ task' = [task EXCEPT ![k].pc = "await_init"]
       \/ /\ sessions' = [sessions EXCEPT ![task[k].sid] = ClientStopped(@)]
          /\ NoClient(k)

\* client.start() of a per-user client: the initialize response.
UserInitResponse(k) ==
    /\ task[k].pc = "await_init"
    /\ UNCHANGED exceptMgr
    /\ UNCHANGED <<config, initIdx, mgrPhase, reported, clients, user_clients,
                   tool_registry, per_user_configs, tokens, token_files>>
    /\ \E o \in Outcomes :
         IF o = "ok" /\ sessions[task[k].sid].process
         THEN /\ sessions' = [sessions EXCEPT ![task[k].sid].initialized = TRUE]
              /\ task' = [task EXCEPT ![k].pc = "await_list"]
         ELSE /\ sessions' = [sessions EXCEPT ![task[k].sid] = ClientStopped(@)]
              /\ NoClient(k)

\* The tools/list response of a per-user client: an error field or a closed
\* stream raises; a result is registered, the client cached, and call_tool
\* runs on up to the readline of tools/call.
UserListResponse(k) ==
    /\ task[k].pc = "await_list"
    /\ UNCHANGED exceptMgr
    /\ UNCHANGED <<config, initIdx, mgrPhase, reported, clients, sessions,
                   per_user_configs, tokens, token_files>>
    /\ LET t == task[k]
           svc == sessions[t.sid].server IN
       \/ /\ NoClient(k)
          /\ UNCHANGED <<tool_registry, user_clients>>
       \/ \E cat \in PerUserCatalogs :
            /\ tool_registry' = RegisterTools(tool_registry, cat, svc)
            /\ IF RegistrationRaises(cat)
               THEN /\ NoClient(k)
                    /\ UNCHANGED user_clients
               ELSE /\ user_clients' =
                          CacheUserClient(user_clients, t.user, svc, t.sid)
                    /\ IF t.mode = "route"
                       THEN Proceed(k, t, ClientCall(sessions, t.sid))
                       ELSE IF t.tool \in DOMAIN tool_registry'
                            THEN Proceed(k, t,
                                   Dispatch(tool_registry'[t.tool], t.user,
                                            user_clients', clients, sessions))
                            ELSE Proceed(k, t, UnknownTool(t.tool))

\* The tools/call response: the result, or an error field / closed stream.
CallResponse(k) ==
    /\ task[k].pc = "await_call"
    /\ UNCHANGED exceptMgr
    /\ UNCHANGED <<config, initIdx, mgrPhase, reported, clients, sessions,
                   user_clients, tool_registry, per_user_configs, tokens,
                   token_files>>
    /\ \E o \in Outcomes :
         task' = [task EXCEPT ![k].pc = "done", ![k].sid = 0, ![k].mode = "",
                              ![k].res = IF o = "ok" THEN "ok" ELSE "error"]

NextMgr ==
    \/ InitializeServer
    \/ InitializeFinish
    \/ \E u \in Users : SetToken(u)
    \/ \E u \in Users : DeleteToken(u)
    \/ \E k \in Tasks, tool \in ToolNames, user \in Users \cup {NoUser} :
          CallTool(k, tool, user)
    \/ \E k \in Tasks : UserConnected(k)
    \/ \E k \in Tasks : UserInitResponse(k)
    \/ \E k \in Tasks : UserListResponse(k)
    \/ \E k \in Tasks : CallResponse(k)

\* ---------------------------------------------------------- SpecTransport
\* One stdout line as json.loads returns it: a response carries the id of a
\* request, a server notification carries no id.
Response(n) == [hasId |-> TRUE, id |-> n]
Notification == [hasId |-> FALSE, id |-> 0]
NoLine == Notification

\* A caller that is not inside send_request.  posts and auths count the
\* POSTs and the OAuthManager.authenticate calls of its current send_request.
IdleCall == [pc |-> "idle", req |-> 0, got |-> NoLine, res |-> "none",
             posts |-> 0, auths |-> 0]

\* StdioTransport.__init__ / HTTPTransport.__init__: nothing connected,
\* request_id = 0.
NewTransport ==
    /\ tproc = FALSE
    /\ teof = FALSE
    /\ request_id = 0
    /\ tsent = <<>>
    /\ tanswered = {}
    /\ tnotes = 0
    /\ tout = <<>>
    /\ treader = "none"
    /\ tcall = [c \in Callers |-> IdleCall]

TransportAtRest == tkind = "stdio" /\ toauth = FALSE /\ NewTransport


InitManager ==
    InitMgr /\ ClientAtRest /\ TransportAtRest /\ OAuthAtRest /\ LoaderAtRest /\ OthersAtRest

SpecMgr == InitManager /\ [][NextMgr]_vars

InitClient ==
    /\ client \in {[NewClient EXCEPT !.kind = k] : k \in ClientKinds}
    /\ cop = [c \in Callers |-> "none"]
    /\ cpc = [c \in Callers |-> "idle"]
    /\ cres = [c \in Callers |-> "none"]
    /\ MgrAtRest /\ TransportAtRest /\ OAuthAtRest /\ LoaderAtRest /\ OthersAtRest

\* --------------------------------------------------------------- SpecLife
\* The manager from initialize_servers through list_all_tools to shutdown,
\* with one call_tool invocation.
LifeTasks == {"k1"}

\* The user field of the session _discover_per_user_tools builds (its
\* config is named f"{server_name}:discovery").
Discovery == ":discovery"

\* No call_tool and no list_all_tools is suspended at an await.
NoneInFlight ==
    /\ \A k \in Tasks : task[k].pc \in {"idle", "done"}
    /\ lister.pc \in {"idle", "done"}

\* _discover_per_user_tools' loop: entries without a name are skipped
\* (`tool.get("name")`, `continue`), every named one is written.
RegisterNamed(reg, cat, server) ==
    LET names == Range(cat) \ {NoName}
    IN  [t \in DOMAIN reg \cup names |-> IF t \in names THEN server ELSE reg[t]]

\* What a shared client's list_tools gives list_all_tools: the tools of the
\* result, or an exception (error field, closed stream, not initialized).
ListAnswers ==
    {[ok |-> TRUE, tools |-> c] : c \in Catalogs}
        \cup {[ok |-> FALSE, tools |-> <<>>]}

\* The answers SpecLife lets a shared client give: its content plays no part
\* in the life cycle.
LifeAnswers == {a \in ListAnswers : a.tools = <<>>}

\* A tagging that leaves out the qualified id.
TagNoId(server, name, auth) ==
    [name |-> name, server |-> server, id |-> "", requires_auth |-> auth]

\* tool["_server"] = server_name; tool["_id"] = f"{server_name}.{tool_name}"
\* (and tool["_requires_auth"] = True in _discover_per_user_tools).
Tag(server, name, auth) ==
    [name |-> name, server |-> server, id |-> server \o "." \o name,
     requires_auth |-> auth]

\* server_tools of one server: entries without a name are skipped, the others
\* are tagged and keyed by name.
ServerTools(server, cat, auth) ==
    [n \in Range(cat) \ {NoName} |-> Tag(server, n, auth)]

\* all_tools[server_name] = server_tools
Put(all, server, tools) ==
    [n \in DOMAIN all \cup {server} |-> IF n = server THEN tools ELSE all[n]]

\* self.clients.items(): the shared clients in the order they were inserted,
\* which is the order of the configuration.
ClientOrder == SelectSeq(config, LAMBDA n : n \in DOMAIN clients)

\* list_all_tools after its loop over the shared clients, continuing from
\* the lister l: with include_per_user and a per-user service configured
\* _discover_per_user_tools builds a transport and a client and suspends in
\* client.start(); otherwise all_tools is returned.
AfterShared(l) ==
    IF l.include /\ per_user_configs # {}
    THEN LET svc == CHOOSE n \in per_user_configs : TRUE IN
         /\ sessions' = Append(sessions, NewSession(svc, Discovery, ""))
         /\ lister' = [l EXCEPT !.pc = "connecting", !.sid = Len(sessions) + 1]
    ELSE /\ lister' = [l EXCEPT !.pc = "done"]
         /\ UNCHANGED sessions

\* list_all_tools(include_per_user) up to its first await: the list_tools of
\* the first shared client, or with no shared client what follows the loop.
ListAllTools(include) ==
    /\ mgrPhase = "ready"
    /\ lister.pc = "idle"
    /\ down.pc = "idle"
    /\ LET l == [IdleLister EXCEPT !.include = include, !.todo = ClientOrder] IN
       IF l.todo = <<>>
       THEN AfterShared(l)
       ELSE /\ lister' = [l EXCEPT !.pc = "listing"]
            /\ UNCHANGED sessions
    /\ UNCHANGED <<config, initIdx, mgrPhase, reported, clients, user_clients,
                   tool_registry, per_user_configs, tokens, token_files, task,
                   down>>
    /\ UNCHANGED exceptLife

\* What the actions of list_all_tools leave alone besides the sessions.
DiscoverFrame ==
    /\ UNCHANGED <<config, initIdx, mgrPhase, reported, clients, user_clients,
                   per_user_configs, tokens, token_files, task, down>>
    /\ UNCHANGED exceptLife

\* One iteration of the loop over the shared clients, from the resumption of
\* `await client.list_tools()`: an exception is logged and the server left
\* out, a result is tagged and stored; then the next list_tools, or what
\* follows the loop.
ListSharedResponse(answer) ==
    /\ lister.pc = "listing"
    /\ ~ClientReady(sessions[clients[Head(lister.todo)]]) => ~answer.ok
    /\ LET name == Head(lister.todo)
           l == [lister EXCEPT
                   !.todo = Tail(@),
                   !.answers = Put(@, name, answer),
                   !.all = IF answer.ok
                           THEN Put(@, name, ServerTools(name, answer.tools, FALSE))
                           ELSE @] IN
       IF l.todo = <<>>
       THEN AfterShared(l)
       ELSE /\ lister' = l
            /\ UNCHANGED sessions
    /\ UNCHANGED tool_registry
    /\ DiscoverFrame

\* client.start() of the discovery client: connect returned or raised (start
\* stops the session, the finally stops it again, list_all_tools logs).
DiscoverConnected ==
    /\ lister.pc = "connecting"
    /\ \/ /\ sessions' = [sessions EXCEPT ![lister.sid] = TransportConnect(@)]
          /\ lister' = [lister EXCEPT !.pc = "await_init"]
       \/ /\ sessions' = [sessions EXCEPT ![lister.sid] = ClientStopped(@)]
          /\ lister' = [lister EXCEPT !.pc = "done"]
    /\ UNCHANGED tool_registry
    /\ DiscoverFrame

\* client.start() of the discovery client: the initialize response.
DiscoverInitResponse ==
    /\ lister.pc = "await_init"
    /\ \E o \in Outcomes :
         IF o = "ok"
         THEN /\ sessions' = [sessions EXCEPT ![lister.sid].initialized = TRUE]
              /\ lister' = [lister EXCEPT !.pc = "await_list"]
         ELSE /\ sessions' = [sessions EXCEPT ![lister.sid] = ClientStopped(@)]
              /\ lister' = [lister EXCEPT !.pc = "done"]
    /\ UNCHANGED tool_registry
    /\ DiscoverFrame

\* The tools/list response of the discovery client: a failure goes straight
\* to the finally; a result is registered name by name; then `finally:
\* await client.stop()` suspends in close().
DiscoverListResponse ==
    /\ lister.pc = "await_list"
    /\ \/ /\ UNCHANGED tool_registry
          /\ lister' = [lister EXCEPT !.pc = "stopping"]
       \/ \E cat \in PerUserCatalogs :
            LET svc == sessions[lister.sid].server IN
            /\ tool_registry' = RegisterNamed(tool_registry, cat, svc)
            /\ lister' = [lister EXCEPT !.pc = "stopping",
                                        !.found = ServerTools(svc, cat, TRUE)]
    /\ UNCHANGED sessions
    /\ DiscoverFrame

\* The stop() of the finally has completed (or raised, which list_all_tools
\* logs): the discovery session is stopped and list_all_tools returns.  What
\* the discovery found is stored under `if tools:` when stop() returned.
DiscoverStopped ==
    /\ lister.pc = "stopping"
    /\ sessions' = [sessions EXCEPT ![lister.sid] = ClientStopped(@)]
    /\ \E raises \in BOOLEAN :
         /\ raises => sessions[lister.sid].process
         /\ lister' = [lister EXCEPT
                !.pc = "done",
                !.found = <<>>,
                !.all = IF ~raises /\ DOMAIN lister.found # {}
                        THEN Put(@, sessions[lister.sid].server, lister.found)
                        ELSE @]
    /\ UNCHANGED tool_registry
    /\ DiscoverFrame

\* The sessions shutdown iterates over: self.clients.values(), then the
\* values of every self.user_clients[user_id].
SharedTargets == {clients[n] : n \in DOMAIN clients}
UserTargets ==
    UNION {{user_clients[u][n] : n \in DOMAIN user_clients[u]} :
             u \in DOMAIN user_clients}
ShutdownTargets == SharedTargets \cup UserTargets

\* self.clients.clear(); self.user_clients.clear(); self._tool_registry.clear()
Cleared ==
    /\ clients' = <<>>
    /\ user_clients' = <<>>
    /\ tool_registry' = <<>>
    /\ mgrPhase' = "down"

\* What the actions of shutdown leave alone.
ShutdownFrame ==
    /\ UNCHANGED <<config, initIdx, reported, per_user_configs, tokens,
                   token_files, task, lister>>
    /\ UNCHANGED exceptLife

\* shutdown up to the first stop() that suspends; with nothing to stop it
\* clears the maps and returns in this step.
Shutdown ==
    /\ mgrPhase \in {"ready", "failed", "down"}
    /\ NoneInFlight
    /\ down.pc = "idle"
    /\ IF ShutdownTargets = {}
       THEN /\ Cleared
            /\ UNCHANGED down
       ELSE /\ down' = [pc |-> "stopping", todo |-> ShutdownTargets,
                        stops |-> {}, failed |-> {}]
            /\ mgrPhase' = "stopping"
            /\ UNCHANGED <<clients, user_clients, tool_registry>>
    /\ UNCHANGED sessions
    /\ ShutdownFrame

\* A shutdown that lets the exception of a stop() out.
ShutdownStopPropagates(sid, raises) ==
    /\ down.pc = "stopping"
    /\ sid \in down.todo
    /\ sid \in UserTargets => down.todo \cap SharedTargets = {}
    /\ raises => sessions[sid].process
    /\ sessions' = [sessions EXCEPT ![sid] = ClientStopped(@)]
    /\ IF raises
       THEN /\ down' = [down EXCEPT !.pc = "idle", !.stops = @ \cup {sid},
                                    !.failed = @ \cup {sid}]
            /\ mgrPhase' = "ready"
            /\ UNCHANGED <<clients, user_clients, tool_registry>>
       ELSE IF down.todo = {sid}
            THEN /\ Cleared
                 /\ down' = [down EXCEPT !.pc = "idle", !.todo = {},
                                         !.stops = @ \cup {sid}]
            ELSE /\ down' = [down EXCEPT !.todo = @ \ {sid},
                                         !.stops = @ \cup {sid}]
                 /\ UNCHANGED <<mgrPhase, clients, user_clients, tool_registry>>
    /\ ShutdownFrame

\* One `try: await client.stop() except Exception: logger.error(...)` of
\* shutdown: the shared sessions first, then the per-user ones.  A stop() on
\* a session with a process may raise (see CloseRaises); either way its
\* finally blocks leave the session stopped.  After the last one the maps
\* are cleared and shutdown returns.
ShutdownStop(sid, raises) ==
    /\ down.pc = "stopping"
    /\ sid \in down.todo
    /\ sid \in UserTargets => down.todo \cap SharedTargets = {}
    /\ raises => sessions[sid].process
    /\ sessions' = [sessions EXCEPT ![sid] = ClientStopped(@)]
    /\ LET failed == IF raises THEN down.failed \cup {sid} ELSE down.failed IN
       IF down.todo = {sid}
       THEN /\ Cleared
            /\ down' = [down EXCEPT !.pc = "idle", !.todo = {},
                                    !.stops = @ \cup {sid}, !.failed = failed]
       ELSE /\ down' = [down EXCEPT !.todo = @ \ {sid},
                                    !.stops = @ \cup {sid}, !.failed = failed]
            /\ UNCHANGED <<mgrPhase, clients, user_clients, tool_registry>>
    /\ ShutdownFrame

NextLife ==
    \/ InitializeServer
    \/ InitializeFinish
    \/ \E u \in Users : SetToken(u)
    \/ \E k \in LifeTasks, tool \in ToolNames, user \in Users \cup {NoUser} :
          CallTool(k, tool, user)
    \/ \E k \in LifeTasks : UserConnected(k)
    \/ \E k \in LifeTasks : UserInitResponse(k)
    \/ \E k \in LifeTasks : UserListResponse(k)
    \/ \E k \in LifeTasks : CallResponse(k)
    \/ \E include \in BOOLEAN : ListAllTools(include)
    \/ \E answer \in LifeAnswers : ListSharedResponse(answer)
    \/ DiscoverConnected
    \/ DiscoverInitResponse
    \/ DiscoverListResponse
    \/ DiscoverStopped
    \/ Shutdown
    \/ \E sid \in DOMAIN sessions, raises \in BOOLEAN : ShutdownStop(sid, raises)

SpecLife == InitManager /\ [][NextLife]_vars

\* ---------------------------------------------------------------- SpecList
\* initialize_servers followed by one list_all_tools, the shared clients
\* answering anything.
NextList ==
    \/ InitializeServer
    \/ InitializeFinish
    \/ \E include \in BOOLEAN : ListAllTools(include)
    \/ \E answer \in ListAnswers : ListSharedResponse(answer)
    \/ DiscoverConnected
    \/ DiscoverInitResponse
    \/ DiscoverListResponse
    \/ DiscoverStopped

SpecList == InitManager /\ [][NextList]_vars

SpecClient == InitClient /\ [][NextClient]_vars

\* The event loop resumes a coroutine once what it awaits has completed: the
\* connect, a readline that has a line or end of file to return, the wait
\* for a terminated subprocess.  Nothing obliges a caller to invoke a
\* method, nor the subprocess to exit.
FairClient ==
    \A c \in Callers :
        /\ WF_vars(StartConnected(c))
        /\ WF_vars(StartInitResponse(c))
        /\ WF_vars(StartStopped(c))
        /\ WF_vars(StopDone(c))
        /\ WF_vars(ClientResponse(c))

SpecClientLive == InitClient /\ [][NextClient]_vars /\ FairClient

\* _create_transport: "stdio" builds a StdioTransport, "http" an
\* HTTPTransport, with an OAuthManager when auth.type is "oauth".
InitTransport ==
    /\ tkind \in {"stdio", "http"}
    /\ toauth \in BOOLEAN
    /\ tkind = "stdio" => toauth = FALSE
    /\ NewTransport
    /\ ClientAtRest
    /\ MgrAtRest
    /\ OAuthAtRest
    /\ LoaderAtRest /\ OthersAtRest

\* No caller is suspended inside send_request.
NoneSuspended == \A c \in Callers : tcall[c].pc \in {"idle", "done"}

\* StdioTransport.connect / HTTPTransport.connect.  A failed subprocess
\* start leaves process None; HTTPTransport sets session before it asks the
\* OAuthManager for a token, so session stays set when that raises.  A new
\* subprocess has new pipes and knows nothing of the requests sent before.
Connect(ok) ==
    /\ ~tproc
    /\ NoneSuspended
    /\ IF tkind = "stdio"
         THEN /\ tproc' = ok
              /\ IF ok THEN /\ tout' = <<>>
                            /\ teof' = FALSE
                            /\ tanswered' = Range(tsent)
                       ELSE UNCHANGED <<tout, teof, tanswered>>
         ELSE /\ tproc' = TRUE
              /\ UNCHANGED <<tout, teof, tanswered>>
    /\ UNCHANGED <<tkind, toauth, request_id, tsent, tnotes, treader, tcall>>
    /\ UNCHANGED exceptTransport

\* The id send_request puts in the request: StdioTransport increments
\* request_id under its lock, HTTPTransport writes the literal 1.
StdioRequestId == request_id + 1
HTTPRequestId == 1

CallDone(c, r, line) ==
    tcall' = [tcall EXCEPT ![c] = [@ EXCEPT !.pc = "done", !.res = r,
                                            !.got = line]]

\* send_request up to its first await: not connected raises; otherwise the
\* id is taken and the request is written (stdin.write / session.post).
SendRequest(c) ==
    /\ tcall[c].pc \in {"idle", "done"}
    /\ IF ~tproc
         THEN /\ tcall' = [tcall EXCEPT ![c] =
                    [IdleCall EXCEPT !.pc = "done", !.res = "not_connected"]]
              /\ UNCHANGED <<request_id, tsent>>
         ELSE /\ Len(tsent) < MaxRequestId
              /\ IF tkind = "stdio"
                   THEN /\ request_id' = StdioRequestId
                        /\ tsent' = Append(tsent, StdioRequestId)
                        /\ tcall' = [tcall EXCEPT ![c] =
                              [IdleCall EXCEPT !.pc = "drain",
                                               !.req = StdioRequestId]]
                   ELSE /\ UNCHANGED request_id
                        /\ tsent' = Append(tsent, HTTPRequestId)
                        /\ tcall' = [tcall EXCEPT ![c] =
                              [IdleCall EXCEPT !.pc = "posted",
                                               !.req = HTTPRequestId,
                                               !.posts = 1]]
    /\ UNCHANGED <<tkind, toauth, tproc, teof, tanswered, tnotes, tout,
                   treader>>
    /\ UNCHANGED exceptTransport

\* stdout.readline after the drain.  A buffered line is returned as the
\* response, whatever it is; at end of file the empty read raises; with an
\* empty buffer the caller suspends, and a second caller doing so while one
\* is already suspended gets the StreamReader's RuntimeError.
ReadLine(c) ==
    /\ tcall[c].pc = "drain"
    /\ IF tout # <<>>
         THEN /\ CallDone(c, "response", Head(tout))
              /\ tout' = Tail(tout)
              /\ UNCHANGED treader
         ELSE /\ UNCHANGED tout
              /\ IF teof
                   THEN CallDone(c, "closed", NoLine) /\ UNCHANGED treader
                   ELSE IF treader # "none"
                          THEN CallDone(c, "error", NoLine) /\ UNCHANGED treader
                          ELSE /\ treader' = c
                               /\ tcall' = [tcall EXCEPT ![c].pc = "waiting"]
    /\ UNCHANGED <<tkind, toauth, tproc, teof, request_id, tsent, tanswered,
                   tnotes>>
    /\ UNCHANGED exceptTransport

\* The suspended readline resumes: with the next line, or at end of file.
ReadLineResume(c) ==
    /\ tcall[c].pc = "waiting"
    /\ treader = c
    /\ \/ /\ tout # <<>>
          /\ CallDone(c, "response", Head(tout))
          /\ tout' = Tail(tout)
       \/ /\ tout = <<>>
          /\ teof
          /\ CallDone(c, "closed", NoLine)
          /\ UNCHANGED tout
    /\ treader' = "none"
    /\ UNCHANGED <<tkind, toauth, tproc, teof, request_id, tsent, tanswered,
                   tnotes>>
    /\ UNCHANGED exceptTransport

\* The subprocess answers one request it has read and not answered yet.
ServerRespond(n) ==
    /\ tkind = "stdio"
    /\ tproc /\ ~teof
    /\ n \in Range(tsent) \ tanswered
    /\ tout' = Append(tout, Response(n))
    /\ tanswered' = tanswered \cup {n}
    /\ UNCHANGED <<tkind, toauth, tproc, teof, request_id, tsent, tnotes,
                   treader, tcall>>
    /\ UNCHANGED exceptTransport

\* The subprocess writes a notification (a JSON-RPC message without id).
ServerNotify ==
    /\ tkind = "stdio"
    /\ tproc /\ ~teof
    /\ tnotes < MaxNotifications
    /\ tout' = Append(tout, Notification)
    /\ tnotes' = tnotes + 1
    /\ UNCHANGED <<tkind, toauth, tproc, teof, request_id, tsent, tanswered,
                   treader, tcall>>
    /\ UNCHANGED exceptTransport

\* HTTPTransport.send_request after the post: the response of this very
\* post.  401 with an OAuthManager re-authenticates and sends the request
\* again (or the authentication raises); 401 without one and any other
\* status >= 400 raise; otherwise the body is returned.
HTTPOutcomes == {"ok", "unauthorized", "error"}
HTTPResponse(c, status, authOk) ==
    /\ tcall[c].pc = "posted"
    /\ IF status = "ok"
         THEN CallDone(c, "response", Response(tcall[c].req)) /\ UNCHANGED tsent
         ELSE IF status = "unauthorized" /\ toauth /\ authOk
                THEN /\ Len(tsent) < MaxRequestId
                     /\ tsent' = Append(tsent, HTTPRequestId)
                     /\ tcall' = [tcall EXCEPT ![c].posts = @ + 1,
                                               ![c].auths = @ + 1]
                ELSE /\ UNCHANGED tsent
                     /\ tcall' = [tcall EXCEPT
                          ![c].pc = "done", ![c].res = "error",
                          ![c].auths = IF status = "unauthorized" /\ toauth
                                         THEN @ + 1 ELSE @]
    /\ UNCHANGED <<tkind, toauth, tproc, teof, request_id, tanswered, tnotes,
                   tout, treader>>
    /\ UNCHANGED exceptTransport

\* StdioTransport.close / HTTPTransport.close: the subprocess is terminated
\* and process set to None; the session is closed and set to None.
Close ==
    /\ tproc
    /\ tproc' = FALSE
    /\ teof' = (tkind = "stdio")
    /\ UNCHANGED <<tkind, toauth, request_id, tsent, tanswered, tnotes, tout,
                   treader, tcall>>
    /\ UNCHANGED exceptTransport

\* The caller of send_request is cancelled (task cancellation, a wait_for
\* around the call timing out) while it awaits the response: CancelledError
\* leaves send_request, which has no handler, and nothing else changes.
Cancel(c) ==
    /\ tcall[c].pc \in {"drain", "waiting", "posted"}
    /\ tcall' = [tcall EXCEPT ![c].pc = "done", ![c].res = "cancelled"]
    /\ treader' = IF treader = c THEN "none" ELSE treader
    /\ UNCHANGED <<tkind, toauth, tproc, teof, request_id, tsent, tanswered,
                   tnotes, tout>>
    /\ UNCHANGED exceptTransport

NextTransport ==
    \/ \E c \in Callers : Cancel(c)
    \/ \E ok \in BOOLEAN : Connect(ok)
    \/ \E c \in Callers : SendRequest(c)
    \/ \E c \in Callers : ReadLine(c)
    \/ \E c \in Callers : ReadLineResume(c)
    \/ \E n \in 1..MaxRequestId : ServerRespond(n)
    \/ ServerNotify
    \/ \E c \in Callers, st \in HTTPOutcomes, a \in BOOLEAN : HTTPResponse(c, st, a)
    \/ Close

SpecTransport == InitTransport /\ [][NextTransport]_vars

ToolOps == {"list_tools", "call_tool"}

\* A step in which caller c invokes list_tools or call_tool.
Invokes(c) ==
    /\ cpc[c] = "idle"
    /\ cop'[c] \in ToolOps
    /\ <<cop'[c], cpc'[c], cres'[c]>> # <<cop[c], cpc[c], cres[c]>>

\* C1: list_tools / call_tool invoked while the session is not Initialized
\* (never started, in the handshake, start failed, stopped) fails with
\* 'not initialized' and leaves the transport untouched (no request id is
\* allocated, nothing is sent); a request is only ever sent, and so can only
\* succeed, when the session was Initialized at the invocation.
C1_UninitializedFails ==
    [][\A c \in Callers :
          Invokes(c) =>
            /\ ~client.initialized =>
                  /\ cres'[c] = "not_initialized"
                  /\ cpc'[c] = "idle"
                  /\ client' = client
            /\ cpc'[c] = "await_resp" => client.initialized
            /\ cres'[c] = "not_initialized" => ~client.initialized]_vars

\* A call was refused as 'not initialized' while another caller's start()
\* was still waiting for the initialize response (process spawned, one
\* request already sent).
C1_Witness ==
    \E c, d \in Callers :
        /\ cop[c] = "call_tool" /\ cres[c] = "not_initialized"
        /\ cop[d] = "start" /\ cpc[d] = "await_init"
        /\ client.process /\ client.request_id = 1

\* -------------------------------------------------------------- SpecOAuth
\* One OAuthManager: get_token, authenticate, the PKCE values and the local
\* callback listener.  Strings are sequences of character codes.

\* secrets.token_bytes(32): the model draws the bytes from a seed.
VerifierBytes == 32
Seeds == 1 .. MaxSeed
TokenBytes(seed) == [i \in 1 .. VerifierBytes |-> (37 * seed * i + 11 * seed) % 256]

\* secrets.token_urlsafe(32) for the state parameter, and what a callback
\* can carry as state: one of them, or nothing.
FlowStates == {"st1", "st2"}
NoState == ""

\* The URL-safe base64 alphabet: A-Z a-z 0-9 - _
B64Char(x) ==
    IF x < 26 THEN 65 + x
    ELSE IF x < 52 THEN 97 + (x - 26)
    ELSE IF x < 62 THEN 48 + (x - 52)
    ELSE IF x = 62 THEN 45
    ELSE 95

\* "="
PadChar == 61

Pow64(j) == IF j = 0 THEN 1 ELSE IF j = 1 THEN 64 ELSE IF j = 2 THEN 4096 ELSE 262144

\* base64.urlsafe_b64encode: three bytes to four characters, the last group
\* filled with zero bits and padded with "=".
UrlsafeB64Encode(bytes) ==
    LET n == Len(bytes)
        groups == (n + 2) \div 3
        rem == n % 3
        Byte(i) == IF i <= n THEN bytes[i] ELSE 0
        Group(g) == Byte(3 * g - 2) * 65536 + Byte(3 * g - 1) * 256 + Byte(3 * g)
        Char(k) ==
            LET g == ((k - 1) \div 4) + 1
                j == (k - 1) % 4
            IN  IF g = groups /\ rem # 0 /\ j > rem
                THEN PadChar
                ELSE B64Char((Group(g) \div Pow64(3 - j)) % 64)
    IN  [k \in 1 .. 4 * groups |-> Char(k)]

\* str.rstrip("=")
RECURSIVE RStripPad(_)
RStripPad(str) ==
    IF str # <<>> /\ str[Len(str)] = PadChar
    THEN RStripPad(SubSeq(str, 1, Len(str) - 1))
    ELSE str

\* hashlib.sha256(...).digest(): 32 bytes determined by the text.  The
\* model keeps its length and its dependence on every character, not the
\* SHA-256 compression function.
RECURSIVE Fold(_, _)
Fold(text, h) ==
    IF text = <<>> THEN h
    ELSE Fold(Tail(text), (31 * h + Head(text)) % 65521)
Sha256(text) == [i \in 1 .. 32 |-> (Fold(text, 7) * i + i * i) % 256]

\* _generate_code_verifier
GenerateCodeVerifier(seed) == RStripPad(UrlsafeB64Encode(TokenBytes(seed)))

\* A _generate_code_challenge that keeps the padding.
GenerateCodeChallengePadded(verifier) == UrlsafeB64Encode(Sha256(verifier))

\* _generate_code_challenge
GenerateCodeChallenge(verifier) == RStripPad(UrlsafeB64Encode(Sha256(verifier)))

\* _is_token_expired: `return False`, whatever the token.
IsTokenExpired(token) == FALSE

\* get_token / authenticate returning or raising.
OAuthDone(route, res) == [pc |-> "done", route |-> route, res |-> res]

\* authenticate up to its first await (_discover_oauth_server).
BeginAuthenticate ==
    /\ oauth' = [pc |-> "discovering", route |-> "authenticate", res |-> "none"]
    /\ flow' = NoFlow

\* get_token up to its first await: the cached token is returned when
\* `cached and not self._is_token_expired(cached)`; otherwise a cached
\* refresh token starts _refresh_token, otherwise authenticate starts.
GetToken ==
    /\ oauth.pc \in {"idle", "done"}
    /\ IF cache # NoToken /\ ~IsTokenExpired(cache)
       THEN /\ oauth' = OAuthDone("cache", "token")
            /\ UNCHANGED flow
       ELSE IF cache # NoToken /\ cache.refresh
       THEN /\ oauth' = [pc |-> "refreshing", route |-> "refresh", res |-> "none"]
            /\ UNCHANGED flow
       ELSE BeginAuthenticate
    /\ UNCHANGED cache
    /\ UNCHANGED exceptOAuth

\* HTTPTransport.send_request on a 401: oauth_manager.authenticate() called
\* directly.
Authenticate ==
    /\ oauth.pc \in {"idle", "done"}
    /\ BeginAuthenticate
    /\ UNCHANGED cache
    /\ UNCHANGED exceptOAuth

\* The access token's lifetime at the provider runs out.
Expire ==
    /\ cache # NoToken
    /\ ~cache.expired
    /\ cache' = [cache EXCEPT !.expired = TRUE]
    /\ UNCHANGED <<oauth, flow>>
    /\ UNCHANGED exceptOAuth

\* authenticate from the end of discovery to the wait for the callback: the
\* verifier, the challenge and the state are generated, the authorization
\* URL is built with the challenge, HTTPServer binds localhost:8765 (which
\* raises when the port is taken) and handle_request is handed to the
\* executor.
Discovered ==
    /\ oauth.pc = "discovering"
    /\ \/ \E seed \in Seeds, st \in FlowStates :
            LET v == GenerateCodeVerifier(seed) IN
            /\ flow' = [NoFlow EXCEPT !.verifier = v,
                                      !.challenge = GenerateCodeChallenge(v),
                                      !.state = st,
                                      !.socket = "open"]
            /\ oauth' = [oauth EXCEPT !.pc = "listening"]
       \/ /\ oauth' = OAuthDone("authenticate", "error")
          /\ UNCHANGED flow
    /\ UNCHANGED cache
    /\ UNCHANGED exceptOAuth

\* What a request to the listener can be: a GET with code and a state, a
\* GET without code (a provider error), or a request do_GET never sees.
CallbackKinds == {"code", "error", "other"}

\* CallbackHandler.do_GET on the one request handle_request serves.
FutureAfter(kind, returned) ==
    IF kind = "code"
    THEN IF returned = flow.state THEN "code" ELSE "mismatch"
    ELSE IF kind = "error" THEN "error"
    ELSE "pending"

\* A request arrives at the listener: handle_request serves it and returns,
\* and the coroutine goes on to wait_for(auth_code_future, 300).
Callback(kind, returned) ==
    /\ oauth.pc = "listening"
    /\ flow' = [flow EXCEPT !.handled = @ + 1,
                            !.future = FutureAfter(kind, returned),
                            !.returned = returned]
    /\ oauth' = [oauth EXCEPT !.pc = "waiting"]
    /\ UNCHANGED cache
    /\ UNCHANGED exceptOAuth

\* wait_for returns the future's result or raises its exception; the
\* finally closes the listener; with a code the token exchange is posted
\* with the flow's verifier.
FutureDone ==
    /\ oauth.pc = "waiting"
    /\ flow.future # "pending"
    /\ IF flow.future = "code"
       THEN /\ flow' = [flow EXCEPT !.socket = "closed",
                                    !.code_verifier = flow.verifier]
            /\ oauth' = [oauth EXCEPT !.pc = "exchanging"]
       ELSE /\ flow' = [flow EXCEPT !.socket = "closed"]
            /\ oauth' = OAuthDone("authenticate", flow.future)
    /\ UNCHANGED cache
    /\ UNCHANGED exceptOAuth

\* wait_for gives up after 300 s on a future nobody resolved.
Timeout ==
    /\ oauth.pc = "waiting"
    /\ flow.future = "pending"
    /\ flow' = [flow EXCEPT !.socket = "closed"]
    /\ oauth' = OAuthDone("authenticate", "timeout")
    /\ UNCHANGED cache
    /\ UNCHANGED exceptOAuth

\* The task awaiting _get_authorization_code is cancelled: the finally
\* closes the listener.
CancelWait ==
    /\ oauth.pc \in {"listening", "waiting"}
    /\ flow' = [flow EXCEPT !.socket = "closed"]
    /\ oauth' = OAuthDone("authenticate", "cancelled")
    /\ UNCHANGED cache
    /\ UNCHANGED exceptOAuth

\* The token endpoint answers the exchange: 200 saves the tokens and returns
\* the access token, anything else raises.
ExchangeResponse ==
    /\ oauth.pc = "exchanging"
    /\ \/ /\ cache.access < MaxIssued
          /\ \E r \in BOOLEAN :
                cache' = [access |-> cache.access + 1, refresh |-> r,
                          expired |-> FALSE]
          /\ oauth' = OAuthDone("authenticate", "token")
       \/ /\ oauth' = OAuthDone("authenticate", "error")
          /\ UNCHANGED cache
    /\ UNCHANGED flow
    /\ UNCHANGED exceptOAuth

NextOAuth ==
    \/ GetToken
    \/ Authenticate
    \/ Expire
    \/ Discovered
    \/ \E kind \in CallbackKinds, returned \in FlowStates \cup {NoState} :
          Callback(kind, returned)
    \/ FutureDone
    \/ Timeout
    \/ CancelWait
    \/ ExchangeResponse

InitOAuth ==
    ClientAtRest /\ MgrAtRest /\ TransportAtRest /\ OAuthAtRest /\ LoaderAtRest /\ OthersAtRest

SpecOAuth == InitOAuth /\ [][NextOAuth]_vars

\* The steps the event loop and the 300 s timer make happen once the
\* listener is up, and the answer of the token endpoint; the user's browser
\* request is under no obligation.
FairOAuth ==
    /\ WF_vars(FutureDone)
    /\ WF_vars(Timeout)
    /\ WF_vars(ExchangeResponse)

SpecOAuthLive == InitOAuth /\ [][NextOAuth]_vars /\ FairOAuth

\* ------------------------------------------------------------- SpecLoader
\* One ConfigLoader.  A YAML document is written as a tree whose string
\* scalars are sequences of pieces: literal text, or a reference ${name}.

Lit(chars) == [k |-> "lit", s |-> chars]
Ref(name) == [k |-> "ref", s |-> name]
Text(pieces) == [t |-> "text", v |-> pieces]

\* The characters a piece is written with in the file.
RenderPiece(piece) ==
    IF piece.k = "lit" THEN piece.s ELSE <<"$", "{">> \o piece.s \o <<"}">>

RECURSIVE Render(_)
Render(pieces) ==
    IF pieces = <<>> THEN <<>>
    ELSE RenderPiece(Head(pieces)) \o Render(Tail(pieces))

\* yaml.safe_load: scalars become Python strings, ints or None, mappings
\* dicts, sequences lists.
RECURSIVE SafeLoad(_)
SafeLoad(node) ==
    CASE node.t = "text" -> Str(Render(node.v))
      [] node.t = "dict" -> Dict([k \in DOMAIN node.v |-> SafeLoad(node.v[k])])
      [] node.t = "list" -> List([i \in DOMAIN node.v |-> SafeLoad(node.v[i])])
      [] OTHER -> node

\* Outcome of a substitution: the value, or the variable that is not set.
Subst(value) == [ok |-> TRUE, v |-> value, missing |-> <<>>]
NotFound(name) == [ok |-> FALSE, v |-> Null, missing |-> name]

\* Index of the first "}" of str at or after i; 0 when there is none.
RECURSIVE FirstClose(_, _)
FirstClose(str, i) ==
    IF i > Len(str) THEN 0
    ELSE IF str[i] = "}" THEN i
    ELSE FirstClose(str, i + 1)

\* re.sub(r"\$\{([^}]+)\}", replace_var, obj) from position i on: a match
\* is "${", one or more characters other than "}", and "}"; replace_var
\* raises for a name os.environ.get gives None for.
RECURSIVE ReSub(_, _, _)
ReSub(str, i, env) ==
    IF i > Len(str) THEN Subst(<<>>)
    ELSE LET close == IF i + 1 <= Len(str) /\ str[i] = "$" /\ str[i + 1] = "{"
                      THEN FirstClose(str, i + 2)
                      ELSE 0
         IN  IF close > i + 2
             THEN LET name == SubSeq(str, i + 2, close - 1) IN
                  IF name \in DOMAIN env
                  THEN LET rest == ReSub(str, close + 1, env) IN
                       IF rest.ok THEN Subst(env[name] \o rest.v) ELSE rest
                  ELSE NotFound(name)
             ELSE LET rest == ReSub(str, i + 1, env) IN
                  IF rest.ok THEN Subst(<<str[i]>> \o rest.v) ELSE rest

\* _substitute_env_vars
RECURSIVE SubstituteEnvVars(_, _)
SubstituteEnvVars(obj, env) ==
    CASE obj.t = "dict" ->
           LET r == [k \in DOMAIN obj.v |-> SubstituteEnvVars(obj.v[k], env)]
               bad == {k \in DOMAIN obj.v : ~r[k].ok}
           IN  IF bad = {}
               THEN Subst(Dict([k \in DOMAIN obj.v |-> r[k].v]))
               ELSE NotFound(r[CHOOSE k \in bad : TRUE].missing)
      [] obj.t = "list" ->
           LET r == [i \in DOMAIN obj.v |-> SubstituteEnvVars(obj.v[i], env)]
               bad == {i \in DOMAIN obj.v : ~r[i].ok}
           IN  IF bad = {}
               THEN Subst(List([i \in DOMAIN obj.v |-> r[i].v]))
               ELSE NotFound(r[CHOOSE i \in bad : \A j \in bad : i <= j].missing)
      [] obj.t = "str" ->
           LET r == ReSub(obj.v, 1, env) IN
           IF r.ok THEN Subst(Str(r.v)) ELSE r
      [] OTHER -> Subst(obj)

\* A load() that hands out the document as yaml.safe_load returned it.
LoadConfigUnsubstituted ==
    IF loaded.t # "null" THEN Subst(loaded)
    ELSE Subst(SafeLoad(cfgfile))

\* load(): the cached config when there is one, else the file substituted.
LoadConfig ==
    IF loaded.t # "null" THEN Subst(loaded)
    ELSE SubstituteEnvVars(SafeLoad(cfgfile), environ)

\* key_path.split(".")
RECURSIVE Split(_)
Split(path) ==
    IF \E i \in DOMAIN path : path[i] = "."
    THEN LET dot == CHOOSE i \in DOMAIN path :
                       path[i] = "." /\ \A j \in 1 .. i - 1 : path[j] # "."
         IN  <<SubSeq(path, 1, dot - 1)>> \o Split(SubSeq(path, dot + 1, Len(path)))
    ELSE <<path>>

\* The loop of get: a non-dict on the way, a missing key or a value that
\* is None returns default.
RECURSIVE Walk(_, _, _)
Walk(value, keys, default) ==
    IF keys = <<>> THEN value
    ELSE IF value.t = "dict"
    THEN IF Head(keys) \in DOMAIN value.v /\ value.v[Head(keys)].t # "null"
         THEN Walk(value.v[Head(keys)], Tail(keys), default)
         ELSE default
    ELSE default

\* get(key_path, default) on a loaded config.
Get(conf, path, default) == Walk(conf, Split(path), default)

\* The result of an operation: what it returned, or the name in the
\* EnvironmentError it raised.
Returned(op, path, default, value) ==
    [op |-> op, path |-> path, default |-> default, ok |-> TRUE, out |-> value]
Raised(op, path, default, name) ==
    [op |-> op, path |-> path, default |-> default, ok |-> FALSE,
     out |-> Str(name)]

\* ConfigLoader.load
LoaderLoad ==
    /\ LET r == LoadConfig IN
       IF r.ok
       THEN /\ loaded' = r.v
            /\ lres' = Returned("load", <<>>, Null, r.v)
       ELSE /\ UNCHANGED loaded
            /\ lres' = Raised("load", <<>>, Null, r.missing)
    /\ UNCHANGED <<cfgfile, environ>>
    /\ UNCHANGED exceptLoader

\* ConfigLoader.get
LoaderGet(path, default) ==
    /\ LET r == LoadConfig IN
       IF r.ok
       THEN /\ loaded' = r.v
            /\ lres' = Returned("get", path, default, Get(r.v, path, default))
       ELSE /\ UNCHANGED loaded
            /\ lres' = Raised("get", path, default, r.missing)
    /\ UNCHANGED <<cfgfile, environ>>
    /\ UNCHANGED exceptLoader

\* ConfigLoader.reload: self._config = None, then load().
LoaderReload ==
    /\ LET r == SubstituteEnvVars(SafeLoad(cfgfile), environ) IN
       IF r.ok
       THEN /\ loaded' = r.v
            /\ lres' = Returned("reload", <<>>, Null, r.v)
       ELSE /\ loaded' = Null
            /\ lres' = Raised("reload", <<>>, Null, r.missing)
    /\ UNCHANGED <<cfgfile, environ>>
    /\ UNCHANGED exceptLoader

\* A variable is exported or unset between two operations.
SetEnv(name, value) ==
    /\ environ' = [n \in DOMAIN environ \cup {name} |->
                     IF n = name THEN value ELSE environ[n]]
    /\ environ' # environ
    /\ UNCHANGED <<cfgfile, loaded, lres>>
    /\ UNCHANGED exceptLoader

\* Documents: nested dicts and lists with references inside and between
\* text, lone "$" and "}", a null, an empty document.
Key(c) == <<c>>
ConfigFiles == <<
    Dict(Key("a") :> Dict(Key("b") :> Text(<<Lit(<<"x">>), Ref(<<"A">>)>>)
                          @@ Key("c") :> Num(5)
                          @@ Key("n") :> Null)
         @@ Key("l") :> List(<<Text(<<Ref(<<"B">>)>>),
                               Dict(Key("d") :> Text(<<Ref(<<"A">>), Lit(<<"$">>)>>))>>)),
    Dict(Key("a") :> Text(<<Lit(<<"p", "q">>)>>) @@ Key("n") :> Null),
    Dict(Key("a") :> Dict(Key("b") :> Dict(Key("c") :>
            Text(<<Ref(<<"A">>), Lit(<<"$">>), Ref(<<"B">>), Lit(<<"}">>)>>)))),
    Null,
    Dict(Key("a") :> Dict(Key("b") :> Text(<<Lit(<<"$", "}", "x">>)>>))
         @@ Key("l") :> List(<<>>)) >>

\* Environments: both variables set, one set, one set to "", none set.
Environments == <<
    (<<"A">> :> <<"1">>) @@ (<<"B">> :> <<"2", "2">>),
    (<<"A">> :> <<"1">>),
    (<<"A">> :> <<>>),
    <<>> >>

\* key_path arguments: "a", "a.b", "a.c", "a.n", "n", "a.b.c", "l", "z.b",
\* "a.", "".
KeyPaths == {<<"a">>, <<"a", ".", "b">>, <<"a", ".", "c">>, <<"a", ".", "n">>,
             <<"n">>, <<"a", ".", "b", ".", "c">>, <<"l">>, <<"z", ".", "b">>,
             <<"a", ".">>, <<>>}

\* default arguments: None and a value.
Defaults == <<Null, Num(999)>>

NextLoader ==
    \/ LoaderLoad
    \/ \E path \in KeyPaths, d \in DOMAIN Defaults : LoaderGet(path, Defaults[d])
    \/ LoaderReload
    \/ \E value \in {<<"1">>, <<"3">>} : SetEnv(<<"B">>, value)

InitLoader ==
    /\ \E f \in DOMAIN ConfigFiles : cfgfile = ConfigFiles[f]
    /\ \E e \in DOMAIN Environments : environ = Environments[e]
    /\ loaded = Null
    /\ lres = IdleLoader
    /\ ClientAtRest /\ MgrAtRest /\ TransportAtRest /\ OAuthAtRest
    /\ OthersAtRest

SpecLoader == InitLoader /\ [][NextLoader]_vars

\* ----------------------------------------------------------------- SpecRpc
\* MCPClient.list_tools, MCPClient.call_tool and MCPToolManager.call_tool on
\* an initialized session, with the response object send_request returns.
\* A response is the dict json.loads built: key -> typed value.
ErrorObject == Dict("code" :> Num(1) @@ "message" :> Str(<<"e">>))
ToolSpec(name) == Dict("name" :> Str(<<name>>))

\* Values of the "error" key: an error object, a bare string, null.
ErrorValues == {ErrorObject, Str(<<"e">>), Null}

\* Values of the "result" key: a tools/list result with and without a
\* cursor, a tools/call result, an empty object, null.
ResultValues ==
    {Dict("tools" :> List(<<ToolSpec("search")>>)),
     Dict("tools" :> List(<<ToolSpec("search"), ToolSpec("list-events")>>)
          @@ "nextCursor" :> Str(<<"c">>)),
     Dict("content" :> List(<<Str(<<"t">>)>>) @@ "isError" :> Num(0)),
     Dict(<<>>),
     Null}

NoKeys == [k \in {} |-> Null]
Responses ==
    {e @@ r : e \in {NoKeys} \cup {"error" :> v : v \in ErrorValues},
              r \in {NoKeys} \cup {"result" :> v : v \in ResultValues}}

\* An operation raising: the exception class, the text of its message up to
\* the interpolated error value, and that value.
Raises(kind, text, detail) ==
    [ok |-> FALSE, kind |-> kind, text |-> text, detail |-> detail,
     value |-> Null]

\* An operation returning value.
Returns(value) ==
    [ok |-> TRUE, kind |-> "", text |-> <<>>, detail |-> Null, value |-> value]

\* response.get("result", {})
ResultOf(resp) ==
    IF "result" \in DOMAIN resp THEN resp["result"] ELSE Dict(NoKeys)

\* MCPClient.list_tools from the response on: `if "error" in response:
\* raise RuntimeError(f"tools/list failed: {response['error']}")`, else
\* response.get("result", {}).get("tools", []), where .get on a result that
\* is no dict raises AttributeError.
ListToolsResult(resp) ==
    IF "error" \in DOMAIN resp
    THEN Raises("RuntimeError", <<"tools/list", " failed: ">>, resp["error"])
    ELSE IF ResultOf(resp).t # "dict"
    THEN Raises("AttributeError", <<"object has no attribute 'get'">>, Null)
    ELSE IF "tools" \in DOMAIN ResultOf(resp).v
    THEN Returns(ResultOf(resp).v["tools"])
    ELSE Returns(List(<<>>))

\* MCPClient.call_tool from the response on: `if "error" in response: raise
\* RuntimeError(f"Tool '{name}' execution failed: {error_msg}")`, else
\* response.get("result", {}).
CallToolResult(name, resp) ==
    IF "error" \in DOMAIN resp
    THEN Raises("RuntimeError", <<"Tool '", name, "' execution failed: ">>,
                resp["error"])
    ELSE Returns(ResultOf(resp))

\* MCPToolManager.call_tool: `return await client.call_tool(tool_name,
\* arguments)` for the shared and for the per-user client.
ManagerCallToolResult(name, resp) == CallToolResult(name, resp)

RpcOps == {"list_tools", "call_tool", "manager.call_tool"}

\* The operation up to `await self.transport.send_request(...)`.
RpcRequest(op, name) ==
    /\ rpc.pc = "idle"
    /\ (op = "list_tools") = (name = "")
    /\ rpc' = [rpc EXCEPT !.pc = "await", !.op = op, !.name = name]
    /\ UNCHANGED <<clientVars, mgrVars, lifeVars, transportVars, oauthVars,
                   loaderVars, closeVars, envVars, authVars, agent>>

\* send_request returned resp: the operation raises or returns.
RpcResponse(resp) ==
    /\ rpc.pc = "await"
    /\ rpc' = [rpc EXCEPT
                 !.pc = "done",
                 !.resp = resp,
                 !.out = CASE rpc.op = "list_tools" -> ListToolsResult(resp)
                           [] rpc.op = "call_tool" ->
                                CallToolResult(rpc.name, resp)
                           [] OTHER -> ManagerCallToolResult(rpc.name, resp)]
    /\ UNCHANGED <<clientVars, mgrVars, lifeVars, transportVars, oauthVars,
                   loaderVars, closeVars, envVars, authVars, agent>>

NextRpc ==
    \/ \E op \in RpcOps, name \in ToolNames \cup {""} : RpcRequest(op, name)
    \/ \E resp \in Responses : RpcResponse(resp)

InitRpc ==
    /\ rpc = IdleRpc
    /\ CloseAtRest /\ EnvAtRest /\ AuthAtRest /\ AgentAtRest
    /\ ClientAtRest /\ MgrAtRest /\ TransportAtRest /\ OAuthAtRest
    /\ LoaderAtRest

SpecRpc == InitRpc /\ [][NextRpc]_vars

\* --------------------------------------------------------------- SpecClose
\* StdioTransport.connect, close and the guard of send_request, with the
\* subprocess's reaction to the signals.
exceptClose == <<clientVars, mgrVars, lifeVars, transportVars, oauthVars,
                 loaderVars, rpc, envVars, authVars, agent>>

\* connect: create_subprocess_exec returned, self.process = <the process>; a
\* failure raises and leaves self.process as it was.
StdioConnect(ok, heeds) ==
    /\ ~stdio.process
    /\ \A c \in Callers : scall[c].pc \in {"idle", "done"}
    /\ stdio' = IF ok
                THEN [NewStdio EXCEPT !.process = TRUE, !.heeds = heeds]
                ELSE stdio
    /\ UNCHANGED scall
    /\ UNCHANGED exceptClose

\* The subprocess terminates: on its own, on a SIGTERM it heeds, on SIGKILL.
ProcessExits ==
    /\ stdio.process \/ \E c \in Callers : scall[c].pc \in {"wait", "killwait"}
    /\ ~stdio.exited
    /\ stdio.term > 0 /\ stdio.kill = 0 => stdio.heeds
    /\ stdio' = [stdio EXCEPT !.exited = TRUE]
    /\ UNCHANGED scall
    /\ UNCHANGED exceptClose

\* close() leaves through its finally: self.process = None.
Finally(c, r) ==
    /\ stdio' = [stdio EXCEPT !.process = FALSE]
    /\ scall' = [scall EXCEPT ![c] = [pc |-> "done", op |-> "close", res |-> r]]

\* A close() that sends SIGKILL straight away.
CloseBeginKills(c) ==
    /\ scall[c].pc \in {"idle", "done"}
    /\ IF ~stdio.process
       THEN /\ scall' = [scall EXCEPT ![c] =
                           [pc |-> "done", op |-> "close", res |-> "nothing"]]
            /\ UNCHANGED stdio
       ELSE IF stdio.exited
       THEN Finally(c, "raised")
       ELSE /\ stdio' = [stdio EXCEPT !.kill = @ + 1]
            /\ scall' = [scall EXCEPT ![c] =
                           [pc |-> "killwait", op |-> "close", res |-> "none"]]
    /\ UNCHANGED exceptClose

\* close() up to its first await: nothing without a process; terminate()
\* raises ProcessLookupError on a subprocess that has exited, which only
\* the finally handles; otherwise SIGTERM is sent and close() waits.
CloseBegin(c) ==
    /\ scall[c].pc \in {"idle", "done"}
    /\ IF ~stdio.process
       THEN /\ scall' = [scall EXCEPT ![c] =
                           [pc |-> "done", op |-> "close", res |-> "nothing"]]
            /\ UNCHANGED stdio
       ELSE IF stdio.exited
       THEN Finally(c, "raised")
       ELSE /\ stdio' = [stdio EXCEPT !.term = @ + 1]
            /\ scall' = [scall EXCEPT ![c] =
                           [pc |-> "wait", op |-> "close", res |-> "none"]]
    /\ UNCHANGED exceptClose

\* wait_for(self.process.wait(), timeout=5.0) returned: the subprocess has
\* exited within the grace period.
CloseWaited(c) ==
    /\ scall[c].pc = "wait"
    /\ stdio.exited
    /\ Finally(c, "ok")
    /\ UNCHANGED exceptClose

\* wait_for timed out, the subprocess not having exited within the grace
\* period: self.process.kill() and `await self.process.wait()`.
CloseTimeout(c) ==
    /\ scall[c].pc = "wait"
    /\ stdio.process /\ ~stdio.exited
    /\ stdio' = [stdio EXCEPT !.kill = @ + 1]
    /\ scall' = [scall EXCEPT ![c].pc = "killwait"]
    /\ UNCHANGED exceptClose

\* The wait after kill() returned.
CloseKilled(c) ==
    /\ scall[c].pc = "killwait"
    /\ stdio.exited
    /\ Finally(c, "ok")
    /\ UNCHANGED exceptClose

\* send_request: `if not self.process: raise RuntimeError("STDIO transport
\* not connected")`; otherwise the request goes out (see SpecTransport).
StdioSendRequest(c) ==
    /\ scall[c].pc \in {"idle", "done"}
    /\ scall' = [scall EXCEPT ![c] =
                   [pc |-> "done", op |-> "send_request",
                    res |-> IF stdio.process THEN "sent" ELSE "not_connected"]]
    /\ UNCHANGED stdio
    /\ UNCHANGED exceptClose

NextClose ==
    \/ \E ok, heeds \in BOOLEAN : StdioConnect(ok, heeds)
    \/ ProcessExits
    \/ \E c \in Callers :
        \/ CloseBegin(c)
        \/ CloseWaited(c)
        \/ CloseTimeout(c)
        \/ CloseKilled(c)
        \/ StdioSendRequest(c)

InitClose ==
    /\ CloseAtRest
    /\ RpcAtRest /\ EnvAtRest /\ AuthAtRest /\ AgentAtRest
    /\ ClientAtRest /\ MgrAtRest /\ TransportAtRest /\ OAuthAtRest
    /\ LoaderAtRest

SpecClose == InitClose /\ [][NextClose]_vars

\* ----------------------------------------------------------------- SpecEnv
\* How _create_transport / _get_user_client and StdioTransport.connect put
\* the environment of the subprocess together.
TOKEN_PATH == "GOOGLE_CALENDAR_MCP_TOKEN_PATH"
EnvNames == {TOKEN_PATH, "HOME"}

\* Environments over EnvNames whose values are all `value`.
EnvsOf(value) == UNION {[names -> {value}] : names \in SUBSET EnvNames}

\* The "env" entry of a server config: missing, or a dict.
ConfigEnvs ==
    {[set |-> FALSE, env |-> NoEnv]}
        \cup {[set |-> TRUE, env |-> e] : e \in EnvsOf("from-config")}

exceptEnv == <<clientVars, mgrVars, lifeVars, transportVars, oauthVars,
               loaderVars, rpc, closeVars, authVars, agent>>

\* dict.update: the entries of b are written over those of a.
Update(a, b) ==
    [k \in DOMAIN a \cup DOMAIN b |-> IF k \in DOMAIN b THEN b[k] ELSE a[k]]

\* An environment in which the config has the last word.
UserEnvConfigLast(os, cfg, token_file) ==
    Update(Update(os, TOKEN_PATH :> token_file), cfg.env)

\* _get_user_client: env = os.environ.copy(); env.update(config env) when
\* there is one; env["GOOGLE_CALENDAR_MCP_TOKEN_PATH"] = str(token_file).
UserEnv(os, cfg, token_file) ==
    Update(Update(os, cfg.env), TOKEN_PATH :> token_file)

\* StdioTransport.__init__: self.env = env or {}.
TransportEnv(cfg) == cfg.env

\* connect: full_env = dict(os.environ); full_env.update(self.env).
FullEnv(os, env) == Update(os, env)

\* The process sets or changes a variable of its own environment.
SetEnviron(name, value) ==
    /\ spawn.pc # "spawned"
    /\ osenv' = Update(osenv, name :> value)
    /\ osenv' # osenv
    /\ UNCHANGED spawn
    /\ UNCHANGED exceptEnv

\* _create_transport for a shared server: StdioTransport(command, args,
\* env=server_config.get("env")).
CreateTransport(cfg) ==
    /\ spawn.pc = "idle"
    /\ spawn' = [spawn EXCEPT !.pc = "built", !.cfg = cfg, !.os0 = NoEnv,
                              !.env = TransportEnv(cfg)]
    /\ UNCHANGED osenv
    /\ UNCHANGED exceptEnv

\* _get_user_client from the token file on: the environment is built and
\* handed to StdioTransport.
GetUserClient(user, cfg) ==
    /\ spawn.pc = "idle"
    /\ spawn' = [spawn EXCEPT
                   !.pc = "built", !.user = user, !.cfg = cfg, !.os0 = osenv,
                   !.env = UserEnv(osenv, cfg,
                                   TokenFileName(user, "google-calendar"))]
    /\ UNCHANGED osenv
    /\ UNCHANGED exceptEnv

\* StdioTransport.connect: create_subprocess_exec(..., env=full_env).
SpawnConnect ==
    /\ spawn.pc = "built"
    /\ spawn' = [spawn EXCEPT !.pc = "spawned", !.full = FullEnv(osenv, spawn.env)]
    /\ UNCHANGED osenv
    /\ UNCHANGED exceptEnv

NextEnv ==
    \/ \E name \in EnvNames, value \in {"from-os", "from-os-later"} :
          SetEnviron(name, value)
    \/ \E cfg \in ConfigEnvs : CreateTransport(cfg)
    \/ \E user \in Users, cfg \in ConfigEnvs : GetUserClient(user, cfg)
    \/ SpawnConnect

InitEnv ==
    /\ EnvAtRest
    /\ RpcAtRest /\ CloseAtRest /\ AuthAtRest /\ AgentAtRest
    /\ ClientAtRest /\ MgrAtRest /\ TransportAtRest /\ OAuthAtRest
    /\ LoaderAtRest

SpecEnv == InitEnv /\ [][NextEnv]_vars

\* ---------------------------------------------------------------- SpecAuth
\* google_login and google_callback.  Both are coroutines without an await,
\* so each request is handled in one step of the event loop.
MaxStates == 3

\* The values secrets.token_urlsafe(32) returns, 0 standing for a request
\* without a state parameter; 256 random bits do not repeat, so the n-th
\* login gets a value no login got before.
StateValues == 1 .. MaxStates
NoStateParam == 0
NextState == Cardinality(authlog.issued) + 1

exceptAuth == <<clientVars, mgrVars, lifeVars, transportVars, oauthVars,
                loaderVars, rpc, closeVars, envVars, agent>>

\* A callback that leaves the state in the dict.
KeepState(states, st) == states

\* _oauth_states.pop(state): the entry is removed.
PopState(states, st) == [x \in DOMAIN states \ {st} |-> states[x]]

Respond(route, st, status) == [route |-> route, state |-> st, status |-> status]

\* GET /auth/google/login?user_id=...: 400 without a user id; otherwise a
\* fresh state is stored with the user id, and get_google_flow either raises
\* the 500 of missing credentials or the user is redirected to Google.
GoogleLogin(user_id, configured) ==
    /\ Cardinality(authlog.issued) < MaxStates
    /\ IF user_id = ""
       THEN /\ authlog' = [authlog EXCEPT !.last = Respond("login", 0, "400")]
            /\ UNCHANGED oauth_states
       ELSE /\ oauth_states' =
                 [x \in DOMAIN oauth_states \cup {NextState} |->
                     IF x = NextState THEN user_id ELSE oauth_states[x]]
            /\ authlog' = [authlog EXCEPT
                          !.issued = @ \cup {<<NextState, user_id>>},
                          !.last = Respond("login", NextState,
                                           IF configured THEN "redirect"
                                           ELSE "500")]
    /\ UNCHANGED exceptAuth

\* GET /auth/google/callback: an error parameter answers 400 at once; a
\* missing or unknown state is invalid; otherwise the state is popped, and
\* the token of the exchanged code is stored under the popped user id unless
\* the credentials are missing (500) or the exchange fails (400).
GoogleCallback(st, error, exchange) ==
    /\ Len(authlog.accepted) <= MaxStates
    /\ IF error
       THEN /\ authlog' = [authlog EXCEPT !.last = Respond("callback", st, "failed")]
            /\ UNCHANGED oauth_states
       ELSE IF st = NoStateParam \/ st \notin DOMAIN oauth_states
       THEN /\ authlog' = [authlog EXCEPT !.last = Respond("callback", st, "invalid")]
            /\ UNCHANGED oauth_states
       ELSE /\ oauth_states' = PopState(oauth_states, st)
            /\ authlog' = [authlog EXCEPT
                 !.accepted = IF exchange = "ok"
                              THEN Append(@, [state |-> st,
                                              user |-> oauth_states[st]])
                              ELSE @,
                 !.last = Respond("callback", st,
                             CASE exchange = "ok" -> "success"
                               [] exchange = "unconfigured" -> "500"
                               [] OTHER -> "exchange_failed")]
    /\ UNCHANGED exceptAuth

NextAuth ==
    \/ \E user_id \in Users \cup {""}, configured \in BOOLEAN :
          GoogleLogin(user_id, configured)
    \/ \E st \in StateValues \cup {NoStateParam}, error \in BOOLEAN,
          exchange \in {"ok", "unconfigured", "fails"} :
          GoogleCallback(st, error, exchange)

InitAuth ==
    /\ AuthAtRest
    /\ RpcAtRest /\ CloseAtRest /\ EnvAtRest /\ AgentAtRest
    /\ ClientAtRest /\ MgrAtRest /\ TransportAtRest /\ OAuthAtRest
    /\ LoaderAtRest

SpecAuth == InitAuth /\ [][NextAuth]_vars

\* --------------------------------------------------------------- SpecAgent
\* Agent.step over a flow of three states, one of them terminal.  What a
\* state's run does, whether a transition is ready and where it leads are
\* the flow's business and are left open.
MAX_ITER == 10

AgentStates == {"agent_reply", "state_tool", "state_end"}

\* state.is_terminal
IsTerminal(state) == state = "state_end"

exceptAgent == <<clientVars, mgrVars, lifeVars, transportVars, oauthVars,
                 loaderVars, rpc, closeVars, envVars, authVars>>

\* What follows the loop: self.current_state =
\* self.flow.get_state("agent_reply"); return last_ai_message.
Return(a, why) ==
    [a EXCEPT !.pc = "returned", !.exit = why, !.current_state = "agent_reply"]

\* A loop head without the iteration limit.
LoopHeadNoLimit(a) ==
    IF IsTerminal(a.current_state) THEN Return(a, "terminal")
    ELSE [a EXCEPT !.retry_count = @ + 1, !.pc = "running"]

\* The head of the loop up to `await self.current_state.run(context, self)`:
\* `while not self.current_state.is_terminal`, `if retry_count > MAX_ITER:
\* break`, `retry_count += 1`.
LoopHead(a) ==
    IF IsTerminal(a.current_state) THEN Return(a, "terminal")
    ELSE IF a.retry_count > MAX_ITER THEN Return(a, "max_iter")
    ELSE [a EXCEPT !.retry_count = @ + 1, !.pc = "running"]

\* step(messages) up to its first await.
StepBegin ==
    /\ agent.pc \in {"idle", "returned", "raised"}
    /\ agent' = LoopHead([agent EXCEPT !.retry_count = 0, !.runs = 0,
                                       !.last_ai_message = FALSE,
                                       !.exit = ""])
    /\ UNCHANGED exceptAgent

\* The run of the current state has returned, with an AIMessage or not,
\* having left the agent in state `now` (run is handed the agent).  A
\* terminal state ends the loop;
\* so does check_transition_ready being false; a single transition is
\* taken at once, several are put to choose_transition.
RunReturns(now, ai, ready, single, next) ==
    /\ agent.pc = "running"
    /\ ~ready => single /\ next = now
    /\ ~single => next = now
    /\ LET a == [agent EXCEPT !.runs = @ + 1, !.current_state = now,
                              !.last_ai_message = @ \/ ai] IN
       agent' = IF IsTerminal(now) THEN Return(a, "terminal")
                ELSE IF ~ready THEN Return(a, "no_transition")
                ELSE IF single THEN LoopHead([a EXCEPT !.current_state = next])
                ELSE [a EXCEPT !.pc = "choosing"]
    /\ UNCHANGED exceptAgent

\* choose_transition returned a state name: self.current_state =
\* self.flow.get_state(next_state_name), and the loop goes round.
ChooseReturns(next) ==
    /\ agent.pc = "choosing"
    /\ agent' = LoopHead([agent EXCEPT !.current_state = next])
    /\ UNCHANGED exceptAgent

\* choose_transition raised (the model call failed, its output is not the
\* JSON asked for): the exception leaves step, which has no handler.
ChooseRaises ==
    /\ agent.pc = "choosing"
    /\ agent' = [agent EXCEPT !.pc = "raised", !.exit = "raised"]
    /\ UNCHANGED exceptAgent

AgentRunReturns ==
    \E now, next \in AgentStates, ai, ready, single \in BOOLEAN :
        RunReturns(now, ai, ready, single, next)

AgentChooseEnds ==
    \/ \E next \in AgentStates : ChooseReturns(next)
    \/ ChooseRaises

NextAgent ==
    \/ StepBegin
    \/ AgentRunReturns
    \/ AgentChooseEnds

InitAgent ==
    /\ \E initial \in AgentStates : agent = NewAgent(initial)
    /\ RpcAtRest /\ CloseAtRest /\ EnvAtRest /\ AuthAtRest
    /\ ClientAtRest /\ MgrAtRest /\ TransportAtRest /\ OAuthAtRest
    /\ LoaderAtRest

SpecAgent == InitAgent /\ [][NextAgent]_vars

\* Every state's run returns, and so does choose_transition (with a name or
\* with an exception): the event loop then resumes step.
FairAgent == WF_vars(AgentRunReturns) /\ WF_vars(AgentChooseEnds)

SpecAgentLive == InitAgent /\ [][NextAgent]_vars /\ FairAgent

\* ------------------------------------------------------ claims on SpecMgr
\* A step in which task k enters MCPToolManager.call_tool.
Begins(k) == task[k].pc = "idle" /\ task'[k].pc # "idle"

\* The step leaves task k waiting for the tools/call response of the shared
\* session of server s.
SentToShared(k, s) ==
    /\ task'[k].pc = "await_call"
    /\ sessions[task'[k].sid].server = s
    /\ sessions[task'[k].sid].user = NoUser

\* Some shared server configured after s reported tool t too.
ReportedLater(s, t) ==
    \E i, j \in DOMAIN SharedOrder :
        /\ SharedOrder[i] = s
        /\ j > i
        /\ t \in reported[SharedOrder[j]]

C3_RegistryOnlySurvivors ==
    mgrPhase # "init" =>
        /\ \A s \in Range(SharedOrder) :
              \E i \in DOMAIN sessions : sessions[i].server = s
        /\ \A t \in DOMAIN tool_registry :
              tool_registry[t] \in Range(SharedOrder)
                => tool_registry[t] \in DOMAIN clients

\* C4: a call of a tool owned by a per-user service, made with no user id or
\* by a user with no stored token at the time of the call, fails with
\* AuthRequiredError and sends nothing, cached session or not.
C4_NoTokenNoCall ==
    [][\A k \in Tasks :
          (/\ Begins(k)
           /\ task'[k].tool \in DOMAIN tool_registry
           /\ tool_registry[task'[k].tool] \in PER_USER_SERVICES
           /\ \/ task'[k].user = NoUser
              \/ ~HasToken(task'[k].user, tool_registry[task'[k].tool]))
            => task'[k].pc = "done" /\ task'[k].res = "auth_required"]_vars

\* C5: call_tool raises AuthRequiredError only when no user id was given or
\* the store holds no token for the user; never for a user with a token.
C5_AuthRequiredOnlyWithoutToken ==
    [][\A k \in Tasks :
          (task'[k].res = "auth_required" /\ task[k].res # "auth_required")
            => \/ task'[k].user = NoUser
               \/ ~HasToken(task'[k].user, "google-calendar")]_vars

\* The session cached under (u, svc) was built for u, with u's token file,
\* which holds u's token row; two users never share a cached session or a
\* token file; a call by u waits on a per-user session only if that session
\* was built for u.
UserSessionsApart ==
    /\ \A u \in DOMAIN user_clients : \A svc \in DOMAIN user_clients[u] :
          LET ses == sessions[user_clients[u][svc]] IN
          /\ ses.user = u
          /\ ses.server = svc
          /\ ses.token_path = TokenFileName(u, svc)
          /\ ses.token_path \in DOMAIN token_files
          /\ token_files[ses.token_path] = <<u, svc>>
    /\ \A u1, u2 \in DOMAIN user_clients :
          \A svc \in DOMAIN user_clients[u1] \cap DOMAIN user_clients[u2] :
             u1 # u2 =>
               /\ user_clients[u1][svc] # user_clients[u2][svc]
               /\ sessions[user_clients[u1][svc]].token_path
                    # sessions[user_clients[u2][svc]].token_path
    /\ \A k \in Tasks :
          (task[k].pc = "await_call" /\ sessions[task[k].sid].user # NoUser)
            => sessions[task[k].sid].user = task[k].user

\* The step sends task k's tools/call on a per-user session.
SentToUserSession(k) ==
    /\ task[k].pc # "await_call"
    /\ task'[k].pc = "await_call"
    /\ sessions'[task'[k].sid].user # NoUser

C7_OneSessionPerUser ==
    [][\A u \in DOMAIN user_clients : \A svc \in DOMAIN user_clients[u] :
          /\ u \in DOMAIN user_clients'
          /\ svc \in DOMAIN user_clients'[u]
          /\ user_clients'[u][svc] = user_clients[u][svc]]_vars

\* Tasks waiting for a response on session i.
InFlight(i) ==
    {k \in Tasks : task[k].pc \in {"await_init", "await_list", "await_call"}
                   /\ task[k].sid = i}

\* C8: no session ever has two requests of call_tool invocations in flight.
C8_OneInFlight == \A i \in DOMAIN sessions : Cardinality(InFlight(i)) <= 1

\* ------------------------------------------------- claims of SpecTransport
\* C9: StdioTransport.send_request for a request sent with id N returns only
\* a response whose id is N: a stdout line that carries another id, or no
\* id, is never returned as the response to request N.
C9_ResponseMatchesRequest ==
    \A c \in Callers :
        (tkind = "stdio" /\ tcall[c].pc = "done" /\ tcall[c].res = "response")
            => (tcall[c].got.hasId /\ tcall[c].got.id = tcall[c].req)

\* C10: every request a transport instance sends carries an id no earlier
\* request of that instance carried; the ids of a StdioTransport are
\* strictly increasing, also when callers allocate them concurrently.
C10_RequestIdsUnique ==
    \A i, j \in DOMAIN tsent :
        i < j => /\ tsent[i] # tsent[j]
                 /\ (tkind = "stdio" => tsent[i] < tsent[j])

\* C11: one HTTPTransport.send_request issues at most two POSTs and at most
\* one re-authentication, however often the server answers 401.
C11_OneRetry ==
    \A c \in Callers : tcall[c].posts <= 2 /\ tcall[c].auths <= 1

\* ------------------------------------------- further claims on SpecClient
\* C12: MCPClient.stop() called from any state raises no error and leaves
\* the session not initialized and the transport closed (so a second call
\* finds the state the first one left).
C12_StopNeverRaises ==
    [][\A c \in Callers :
          ((StopBegin(c) \/ StopDone(c)) /\ cpc'[c] = "idle")
            => /\ cres'[c] = "ok"
               /\ ~client'.initialized
               /\ ~client'.process]_vars

\* A step in which caller c's start() raises.
StartRaises(c) ==
    /\ StartConnected(c) \/ StartInitResponse(c) \/ StartStopped(c)
    /\ cpc'[c] = "idle"
    /\ cres'[c] = "error"

\* C13: when start() raises (connect failed, the initialize request failed
\* or its response carries an error field) the transport is closed, the
\* initialized flag is false and no notifications/initialized was sent: a
\* notification is only ever sent in the step in which a start() succeeds.
C13_FailedStartTearsDown ==
    [][/\ \A c \in Callers :
            StartRaises(c) => /\ ~client'.process
                              /\ ~client'.initialized
                              /\ client'.notified = client.notified
       /\ client'.notified # client.notified
            => \E c \in Callers : /\ cpc[c] = "await_init"
                                  /\ cpc'[c] = "idle"
                                  /\ cres'[c] = "ok"]_vars

\* A start() has raised after its initialize request was sent (the only
\* request of this transport), with no notification sent and the transport
\* closed.
C13_Witness ==
    \E c \in Callers :
        /\ cop[c] = "start" /\ cpc[c] = "idle" /\ cres[c] = "error"
        /\ client.request_id = 1
        /\ client.notified = 0
        /\ ~client.process /\ ~client.initialized

\* C14: a start() that waits for the initialize response of a subprocess
\* that never writes a valid JSON-RPC line (silent, malformed line, closed
\* stream) eventually raises, leaving the session uninitialized -- unless
\* the transport comes to hold a subprocess that does answer.
C14_StartEventuallyRaises ==
    \A c \in Callers :
        (/\ cop[c] = "start" /\ cpc[c] = "await_init"
         /\ client.process /\ client.mode # "answers")
            ~> \/ cpc[c] = "idle" /\ cres[c] = "error" /\ ~client.initialized
               \/ client.mode = "answers"

\* --------------------------------------------- further claims on SpecMgr
\* C17: with no per-user service configured, call_tool of a name that is
\* not in the registry fails with an unknown-tool error naming the tool,
\* sends nothing, and leaves the registry and the session maps unchanged.
C17_UnknownToolNamed ==
    [][\A k \in Tasks :
          (/\ Begins(k)
           /\ per_user_configs = {}
           /\ task'[k].tool \notin DOMAIN tool_registry)
            => /\ task'[k].pc = "done"
               /\ task'[k].res = "unknown_tool"
               /\ task'[k].err.text = "Unknown tool: " \o task'[k].tool
               /\ UNCHANGED <<tool_registry, clients, user_clients,
                              sessions>>]_vars

\* No per-user service is configured, a shared server is connected, and a
\* call of "list-events", which nobody registered, has failed as unknown.
C17_Witness ==
    /\ mgrPhase = "ready"
    /\ per_user_configs = {}
    /\ DOMAIN clients # {}
    /\ "list-events" \notin DOMAIN tool_registry
    /\ \E k \in Tasks :
          /\ task[k].pc = "done"
          /\ task[k].tool = "list-events"
          /\ task[k].err.text = "Unknown tool: list-events"

\* The step in which initialize_servers returns or raises.
InitializeEnds == mgrPhase = "init" /\ mgrPhase' # "init"

RaisesAuthRequired(k) ==
    task[k].res # "auth_required" /\ task'[k].res = "auth_required"

\* C19 as claimed: every AuthRequiredError carries the per-user service and
\* a connect_url made of its auth path followed by the caller's user id.
C19_ConnectUrlOfCaller ==
    [][\A k \in Tasks :
          RaisesAuthRequired(k) =>
            /\ task'[k].err.service \in per_user_configs
            /\ task'[k].err.connect_url =
                  "/auth/google/login?user_id=" \o task'[k].user]_vars

\* C19 amended: ... followed by the caller's user id, or by "unknown" when
\* the call carried no user id; the service is the configured per-user
\* service, the owner of the tool when the registry has one.
C19_ConnectUrlOfCallerOrUnknown ==
    [][\A k \in Tasks :
          RaisesAuthRequired(k) =>
            /\ task'[k].err.service \in per_user_configs
            /\ (task'[k].tool \in DOMAIN tool_registry'
                 /\ tool_registry'[task'[k].tool] \in PER_USER_SERVICES)
                  => task'[k].err.service = tool_registry'[task'[k].tool]
            /\ task'[k].err.connect_url =
                  "/auth/google/login?user_id=" \o
                      (IF task'[k].user = NoUser THEN "unknown"
                       ELSE task'[k].user)]_vars

\* u2's call was refused with the login URL of u2, and a call without user
\* id with the URL of "unknown".
C19_Witness ==
    /\ per_user_configs = {"google-calendar"}
    /\ \E k, j \in Tasks :
          /\ task[k].res = "auth_required" /\ task[k].user = "u2"
          /\ task[k].err.connect_url = "/auth/google/login?user_id=u2"
          /\ task[j].res = "auth_required" /\ task[j].user = NoUser
          /\ task[j].err.connect_url = "/auth/google/login?user_id=unknown"

\* ------------------------------------------ further claims on SpecTransport
\* Ids of the requests whose caller was cancelled while awaiting the
\* response, and whether request n is still unanswered, or its response
\* unread, on the current subprocess.
Abandoned ==
    {tcall[d].req : d \in {e \in Callers : /\ tcall[e].pc = "done"
                                           /\ tcall[e].res = "cancelled"}}
Outstanding(n) == n \notin tanswered \/ Response(n) \in Range(tout)

\* C20: after a call was cancelled while its response was awaited the
\* transport is not reused: no request is sent on a StdioTransport that
\* still has an abandoned request unanswered or its response unread.
C20_NoReuseAfterCancel ==
    [][\A c \in Callers :
          (tcall[c].pc \in {"idle", "done"} /\ tcall'[c].pc = "drain")
            => \A n \in Abandoned : ~Outstanding(n)]_vars

\* C15: in every reachable state every registry entry belongs to a server
\* with a session that is not stopped (shared, per-user or discovery).  The
\* states in which shutdown is between two stops are left out: the claim
\* fails there as well, and fails without them.
C15_NoStoppedOwner ==
    mgrPhase # "stopping" =>
    \A t \in DOMAIN tool_registry :
        \E i \in DOMAIN sessions :
            /\ sessions[i].server = tool_registry[t]
            /\ sessions[i].initialized

\* Every session shutdown iterates over had its stop() invoked.
AllStopped ==
    /\ ShutdownTargets \subseteq down'.stops
    /\ \A i \in ShutdownTargets :
           ~sessions'[i].initialized /\ ~sessions'[i].process

ReturnsCached ==
    /\ oauth.pc \in {"idle", "done"}
    /\ oauth'.pc = "done"
    /\ oauth'.route = "cache"

\* C21: get_token reuses the cached token only when it is not expired; an
\* expired one is refreshed or replaced by a full authenticate.
C21_ReusesOnlyUnexpired ==
    [][(ReturnsCached /\ oauth' # oauth) => ~cache.expired]_vars

\* C22: the wait of the callback listener ends: by the one callback it
\* handles, or with a timeout when no callback arrives within the bounded
\* interval (or by cancellation).
C22_ListenerWaitEnds ==
    (oauth.pc = "listening") ~> (oauth.pc # "listening")

\* C23: the challenge in the authorization URL is the URL-safe base64 text
\* of SHA-256(verifier) with its padding removed, the verifier has at least
\* 43 characters, and the token exchange of the flow sends that verifier.
C23_PkceCorrect ==
    flow.verifier # <<>> =>
        LET full == UrlsafeB64Encode(Sha256(flow.verifier))
            n == Len(flow.challenge)
        IN  /\ Len(flow.verifier) >= 43
            /\ n <= Len(full)
            /\ SubSeq(full, 1, n) = flow.challenge
            /\ \A i \in 1 .. n : flow.challenge[i] # PadChar
            /\ \A i \in n + 1 .. Len(full) : full[i] = PadChar
            /\ flow.code_verifier \in {<<>>, flow.verifier}
            /\ oauth.pc = "exchanging" => flow.code_verifier = flow.verifier

\* A flow whose callback was accepted is exchanging its code: the challenge
\* was sent, the verifier is being posted.
C23_Witness ==
    /\ oauth.pc = "exchanging"
    /\ flow.code_verifier = flow.verifier
    /\ Len(flow.verifier) = 43
    /\ Len(flow.challenge) = 43

\* ----------------------------------------------------- claims on SpecLoader
\* Every segment of the path is a key of the dict reached so far.
RECURSIVE SegmentsExist(_, _)
SegmentsExist(value, keys) ==
    \/ keys = <<>>
    \/ /\ value.t = "dict"
       /\ Head(keys) \in DOMAIN value.v
       /\ SegmentsExist(value.v[Head(keys)], Tail(keys))

\* The value stored at a path all of whose segments exist.
RECURSIVE StoredAt(_, _)
StoredAt(value, keys) ==
    IF keys = <<>> THEN value ELSE StoredAt(value.v[Head(keys)], Tail(keys))

\* Two config values are the same Python value.
Same(a, b) == a.t = b.t /\ a.v = b.v

\* A get has just returned.
GetReturns == lres' # lres /\ lres'.op = "get" /\ lres'.ok

\* C24: get(key_path, default) returns the value stored at the path when
\* every segment exists, and default when a segment is missing.
C24_GetReturnsStoredOrDefault ==
    [][GetReturns =>
         LET keys == Split(lres'.path) IN
         IF SegmentsExist(loaded', keys)
         THEN Same(lres'.out, StoredAt(loaded', keys))
         ELSE Same(lres'.out, lres'.default)]_vars

\* The names referenced in a document.
RECURSIVE RefsIn(_)
RefsIn(node) ==
    CASE node.t = "text" -> {node.v[i].s : i \in {j \in DOMAIN node.v : node.v[j].k = "ref"}}
      [] node.t = "dict" -> UNION {RefsIn(node.v[k]) : k \in DOMAIN node.v}
      [] node.t = "list" -> UNION {RefsIn(node.v[i]) : i \in DOMAIN node.v}
      [] OTHER -> {}

\* A text with every reference replaced by the variable's value.
RECURSIVE Filled(_, _)
Filled(pieces, env) ==
    IF pieces = <<>> THEN <<>>
    ELSE (IF Head(pieces).k = "lit" THEN Head(pieces).s ELSE env[Head(pieces).s])
         \o Filled(Tail(pieces), env)

\* The document with every reference of every string replaced.
RECURSIVE Expected(_, _)
Expected(node, env) ==
    CASE node.t = "text" -> Str(Filled(node.v, env))
      [] node.t = "dict" -> Dict([k \in DOMAIN node.v |-> Expected(node.v[k], env)])
      [] node.t = "list" -> List([i \in DOMAIN node.v |-> Expected(node.v[i], env)])
      [] OTHER -> node

\* load, get or reload has just read and substituted the file.
Loads ==
    /\ <<loaded, lres>>' # <<loaded, lres>>
    /\ lres' # lres
    /\ loaded.t = "null" \/ lres'.op = "reload"

\* C25: loading replaces every ${VAR} in every string at any depth of dicts
\* and lists by the value of VAR, leaves other text as it is, and fails
\* with an error naming a VAR that is not set.
C25_SubstitutesEveryReference ==
    [][Loads =>
         LET unset == {n \in RefsIn(cfgfile) : n \notin DOMAIN environ} IN
         IF unset = {}
         THEN loaded' = Expected(cfgfile, environ)
         ELSE ~lres'.ok /\ lres'.out.v \in unset]_vars

\* A document with references in a dict inside a list inside a dict has
\* been loaded with both variables set.
C25_Witness ==
    /\ lres.op = "load"
    /\ lres.ok
    /\ cfgfile = ConfigFiles[1]
    /\ loaded.t = "dict"
    /\ loaded.v[Key("l")].v[2].v[Key("d")].v = <<"1", "$">>
    /\ loaded.v[Key("a")].v[Key("b")].v = <<"x", "1">>

\* --------------------------------------------- claims on sessions' lifetime
\* The session is being created by a call_tool that has not returned
\* (shared sessions are created while initialize_servers runs).
BeingCreated(i) ==
    \E k \in Tasks : task[k].sid = i /\ task[k].pc \notin {"idle", "done"}

\* C26: once the operation that started it has returned, a session with a
\* running subprocess is in clients or in user_clients.
C26_NoLeakedSession ==
    \A i \in DOMAIN sessions :
        (/\ sessions[i].process
         /\ sessions[i].user = NoUser => mgrPhase # "init"
         /\ ~BeingCreated(i))
        => i \in ShutdownTargets

\* A stop() on the session has returned and its caller has invoked nothing
\* since.
StopReturned == \E c \in Callers : cop[c] = "stop" /\ cpc[c] = "idle"

\* C27: Stopped is terminal: after stop() the session is never Initialized
\* again, whatever is invoked afterwards.
C27_StoppedIsTerminal == StopReturned => ~client.initialized

\* A step in which the session becomes Initialized.
BecomesInitialized == ~client.initialized /\ client'.initialized

\* C28: the session becomes Initialized only after connect, the initialize
\* request and the notifications/initialized notification: the step that
\* sets the flag has a process, an initialize request behind it and has just
\* sent the notification.
C28_InitializedAfterNotification ==
    [][BecomesInitialized =>
         /\ client.process
         /\ client.request_id >= 1
         /\ client'.notified = client.notified + 1]_vars

\* A step in which call_tool invocation k fails with the unknown-tool error.
FailsUnknown(k) ==
    /\ task[k].pc # "done"
    /\ task'[k].pc = "done"
    /\ task'[k].res = "unknown_tool"

\* C29: a call_tool that probed the per-user services fails with the
\* unknown-tool error only if the name is still not in the registry after
\* the probes.
C29_UnknownOnlyIfUnresolved ==
    [][\A k \in Tasks :
          FailsUnknown(k) => task'[k].tool \notin DOMAIN tool_registry']_vars

\* user_clients holds a session for (u, svc).
IsCached(uc, u, svc) == u \in DOMAIN uc /\ svc \in DOMAIN uc[u]

\* The step creates session i.
Creates(i) == i \in DOMAIN sessions' /\ i \notin DOMAIN sessions

\* The call of task k concerns per-user service svc: its tool is registered
\* to svc, or is not registered and svc is probed.
Concerns(k, svc) ==
    /\ svc \in per_user_configs
    /\ task'[k].tool \in DOMAIN tool_registry => tool_registry[task'[k].tool] = svc

C31_DownStaysDown ==
    [][mgrPhase = "down"
         => /\ Len(sessions') = Len(sessions)
            /\ clients' = <<>>
            /\ user_clients' = <<>>
            /\ tool_registry' = <<>>]_vars

\* A step of list_all_tools or of its discovery session.
ListerStep == lister' # lister

\* The session the discovery built, after the step (0 before it is built).
DiscoverySid == lister'.sid

\* C32: discovery is non-destructive and short-lived: when list_all_tools
\* returns its discovery session is stopped, after a success and after a
\* failure; the session is in neither session map; every other session is as
\* it was; and a tool name registered to another server keeps its owner.
C32_DiscoveryNonDestructive ==
    [][ListerStep
         => /\ (lister'.pc = "done" /\ DiscoverySid # 0)
                  => /\ ~sessions'[DiscoverySid].process
                     /\ ~sessions'[DiscoverySid].initialized
            /\ DiscoverySid \notin ShutdownTargets'
            /\ \A i \in DOMAIN sessions :
                   i # DiscoverySid => sessions'[i] = sessions[i]
            /\ \A t \in DOMAIN tool_registry :
                   tool_registry'[t] = tool_registry[t]]_vars

\* The per-user services of the configuration.
ConfiguredPerUser == Range(config) \cap PER_USER_SERVICES

SharedEntry(n, t) ==
    [name |-> t, server |-> n, id |-> n \o "." \o t, requires_auth |-> FALSE]

\* What list_all_tools holds for the shared servers that have answered: the
\* named tools of every answer that was a result, nothing for a failure.
SharedListed(l) ==
    \A n \in DOMAIN l.answers :
        IF l.answers[n].ok
        THEN /\ n \in DOMAIN l.all
             /\ DOMAIN l.all[n] = Range(l.answers[n].tools) \ {NoName}
             /\ \A t \in DOMAIN l.all[n] : l.all[n][t] = SharedEntry(n, t)
        ELSE n \notin DOMAIN l.all

HasError == "error" \in DOMAIN rpc.resp

\* The failure names the operation (tools/list) or the tool of the call.
NamesIt ==
    /\ ~rpc.out.ok
    /\ rpc.out.kind = "RuntimeError"
    /\ rpc.out.detail = rpc.resp["error"]
    /\ IF rpc.op = "list_tools"
       THEN "tools/list" \in Range(rpc.out.text)
       ELSE rpc.name \in Range(rpc.out.text)

\* The "result" member of the response ({} when there is none).
ResultMember ==
    IF "result" \in DOMAIN rpc.resp THEN rpc.resp["result"] ELSE Dict(NoKeys)

\* C35: an error field becomes a failure naming the operation or the tool;
\* any other response makes the operation return what the server sent,
\* unchanged: call_tool and the manager's call_tool the result, list_tools
\* the tools of the result (none when the result has no "tools").
C35_ErrorOrResultUnchanged ==
    rpc.pc = "done"
      => IF HasError THEN NamesIt
         ELSE /\ rpc.out.ok
              /\ IF rpc.op = "list_tools" /\ ResultMember.t = "dict"
                 THEN rpc.out.value = IF "tools" \in DOMAIN ResultMember.v
                                      THEN ResultMember.v["tools"]
                                      ELSE List(<<>>)
                 ELSE rpc.out.value = ResultMember

\* Caller c's step is one of close(): its begin or a resumption.
CloseStep(c) == scall'[c] # scall[c] /\ scall'[c].op = "close"

\* C36: close() sends SIGKILL only after SIGTERM and a grace period in
\* which the subprocess did not exit; whenever a close() ends, by return or
\* by exception, self.process is None; a close() on a transport without a
\* process changes nothing; a send_request without a process fails with
\* 'not connected'.
C36_CloseResetsProcess ==
    [][\A c \in Callers :
         /\ (CloseStep(c) /\ stdio'.kill > stdio.kill)
               => scall[c].pc = "wait" /\ stdio.term > 0 /\ ~stdio.exited
         /\ (CloseStep(c) /\ scall'[c].pc = "done") => ~stdio'.process
         /\ (CloseStep(c) /\ ~stdio.process /\ scall[c].pc # "wait"
                /\ scall[c].pc # "killwait")
               => stdio' = stdio /\ scall'[c].res = "nothing"
         /\ (scall'[c] # scall[c] /\ scall'[c].op = "send_request"
                /\ ~stdio.process)
               => scall'[c].res = "not_connected"]_vars

\* A subprocess that ignored SIGTERM was killed after the grace period;
\* close() returned, a second close() did nothing and a send_request of the
\* other caller failed as not connected.
C36_Witness ==
    /\ stdio.term > 0 /\ stdio.kill > 0
    /\ ~stdio.heeds
    /\ ~stdio.process
    /\ scall["c1"] = [pc |-> "done", op |-> "close", res |-> "nothing"]
    /\ scall["c2"] = [pc |-> "done", op |-> "send_request",
                      res |-> "not_connected"]

\* The value the subprocess is to see for variable k: for a per-user
\* session the user's token file under TOKEN_PATH; else the config's value;
\* else the process environment's (for a per-user session as copied when
\* the environment was built, then as it is at the spawn).
Precedence(k) ==
    IF spawn.user # "" /\ k = TOKEN_PATH
    THEN TokenFileName(spawn.user, "google-calendar")
    ELSE IF k \in DOMAIN spawn.cfg.env THEN spawn.cfg.env[k]
    ELSE IF k \in DOMAIN spawn.os0 THEN spawn.os0[k]
    ELSE osenv[k]

\* C37: the environment of a spawned subprocess is the process environment
\* overridden by the config's variables, and for a per-user session
\* overridden last by the path of that user's token file.
C37_EnvPrecedence ==
    spawn.pc = "spawned"
      => /\ DOMAIN spawn.full =
              DOMAIN osenv \cup DOMAIN spawn.os0 \cup DOMAIN spawn.cfg.env
                \cup (IF spawn.user # "" THEN {TOKEN_PATH} ELSE {})
         /\ \A k \in DOMAIN spawn.full : spawn.full[k] = Precedence(k)

\* A per-user session was spawned with its user's token file although the
\* process environment and the config both name another one.
C37_Witness ==
    /\ spawn.pc = "spawned"
    /\ spawn.user = "u2"
    /\ TOKEN_PATH \in DOMAIN osenv
    /\ TOKEN_PATH \in DOMAIN spawn.cfg.env
    /\ spawn.full[TOKEN_PATH] = TokenFileName("u2", "google-calendar")
    /\ "HOME" \in DOMAIN spawn.cfg.env /\ "HOME" \in DOMAIN osenv
    /\ spawn.full["HOME"] = "from-config"

\* The states issued so far, and those of them already consumed.
IssuedStates == {p[1] : p \in authlog.issued}
ConsumedStates == IssuedStates \ DOMAIN oauth_states

\* A callback stores a token in this step.
StoresToken == authlog'.accepted # authlog.accepted

\* C38: a callback is accepted only for a state that was issued and is not
\* yet consumed; it consumes the state and stores the token under the user
\* id the state was issued for; a callback with a consumed or never issued
\* state (and no error parameter) is answered as invalid; no state ever
\* has two tokens stored for it.
C38_StateSingleUse ==
    [][/\ StoresToken
          => LET st == authlog'.last.state IN
             /\ st \in IssuedStates \ ConsumedStates
             /\ st \in ConsumedStates'
             /\ authlog'.accepted =
                   Append(authlog.accepted,
                          [state |-> st,
                           user |-> CHOOSE u \in Users : <<st, u>> \in authlog.issued])
       /\ (authlog'.last.route = "callback" /\ authlog' # authlog
             /\ authlog'.last.state \notin DOMAIN oauth_states
             /\ authlog'.last.status # "failed")
          => authlog'.last.status = "invalid" /\ ~StoresToken
       /\ \A i, j \in DOMAIN authlog'.accepted :
             authlog'.accepted[i].state = authlog'.accepted[j].state => i = j]_vars

\* Two users logged in; the callback for u2's state stored a token under
\* u2, and a second callback with the same state was answered as invalid.
C38_Witness ==
    /\ \E st \in StateValues :
          /\ <<st, "u2">> \in authlog.issued
          /\ authlog.accepted = <<[state |-> st, user |-> "u2"]>>
          /\ authlog.last = [route |-> "callback", state |-> st, status |-> "invalid"]
    /\ \E st \in DOMAIN oauth_states : oauth_states[st] = "u1"

\* What holds of a step() call at every moment: at most MAX_ITER + 1 runs,
\* none of them of a terminal state; an exit for the limit only after all
\* of them; and once step has returned, whatever ended the loop, the
\* current state is agent_reply.
StepBounded ==
    /\ agent.runs <= MAX_ITER + 1
    /\ agent.pc = "running"
          => ~IsTerminal(agent.current_state) /\ agent.runs <= MAX_ITER
    /\ agent.exit = "max_iter" => agent.runs = MAX_ITER + 1
    /\ agent.pc = "returned"
          => /\ agent.current_state = "agent_reply"
             /\ agent.exit \in {"terminal", "max_iter", "no_transition"}

\* C39: provided every run returns, the state loop of step ends: a running
\* step comes to its end after at most MAX_ITER + 1 state runs, earlier on a
\* terminal state or when no transition is ready, and when it returns the
\* current state is agent_reply.
C39_StepTerminates ==
    /\ []StepBounded
    /\ (agent.pc \in {"running", "choosing"})
          ~> (agent.pc \in {"returned", "raised"})

\* step has returned after MAX_ITER + 1 runs because of the limit, with the
\* current state set to agent_reply.
C39_Witness ==
    /\ agent.pc = "returned"
    /\ agent.exit = "max_iter"
    /\ agent.runs = MAX_ITER + 1
    /\ agent.current_state = "agent_reply"

====
